---- MODULE Spec2Model ----
(***************************************************************************)
(* A model of the redfin crawler's persistence layer                      *)
(* (database/real_estate/operations.py over the tables of models.py) and  *)
(* of its photo-gallery walker                                             *)
(* (crawlers/redfin/extractors/property_images_extractor.py).              *)
(*                                                                         *)
(* Nullable values are options: None is Python's None / SQL NULL and       *)
(* Some(v) is the value v.  A table is a set of rows, each with its        *)
(* surrogate id; the UNIQUE, NOT NULL and FOREIGN KEY constraints of the   *)
(* schema are checked where PostgreSQL checks them, at the commit.         *)
(***************************************************************************)
EXTENDS Integers, Sequences, FiniteSets, TLC

VARIABLES
    properties,      \* table property_metadata: a set of rows
    images,          \* table property_images: a set of rows
    nextPropertyId,  \* the SERIAL sequence of property_metadata.id
    nextImageId,     \* the SERIAL sequence of property_images.id
    last,            \* the call made last: its outcome, and what of its
                     \* arguments and effect the properties below refer to
    walker,          \* one run of extract_property_images: its position, its
                     \* locals, the page it drives and what it has done
    crawl,           \* one call of extract_property_data: its position, the
                     \* metadata it extracted and how upsert_to_db ended
    supplied,        \* history: per source_url and field, the non-null value
                     \* supplied last by a successful upsert_property; exact
                     \* is FALSE once a call for the url has raised after its
                     \* commit (the row then holds what a failed call wrote)
    callers          \* two calls of upsert_property that run at the same
                     \* time, each in its own session: their positions, what
                     \* their lookups loaded and how they ended

vars == <<properties, images, nextPropertyId, nextImageId, last, walker, crawl,
          supplied, callers>>

\* The storage layer's variables.
storage == <<properties, images, nextPropertyId, nextImageId, last, supplied>>

-----------------------------------------------------------------------------
(* Bounds of the model. *)

MaxPropertyId == 2
MaxImageId == 2
MaxBatchLen == 2
MaxTabs == 3

-----------------------------------------------------------------------------
(* Values. *)

None == <<>>
Some(v) == <<v>>

\* A test that takes the empty string for a value.
FalsyStrNoneOnly(x) == x = None

\* Python's `not x` for an optional string: None or the empty string.
FalsyStr(x) == x = None \/ x = Some("")

\* Python's `not x` for an optional integer: None or 0.
FalsyInt(x) == x = None \/ x = Some(0)

SeqRange(s) == {s[i] : i \in 1..Len(s)}

-----------------------------------------------------------------------------
(* The schema: models.py and create_table.py. *)

PropertyFields == {"address", "pending_date", "status", "price", "qr_code_url"}

\* A table without the constraint on source_url.
NoUniqueSourceUrl(props) == TRUE

\* property_metadata.source_url is UNIQUE (NULLs do not collide).
UniqueSourceUrl(props) ==
    \A r1 \in props : \A r2 \in props :
        (r1.source_url = r2.source_url /\ r1.source_url # None) => r1.id = r2.id

\* A schema without the UNIQUE constraint on source_image_url.
NoUniqueSourceImageUrl(imgs) == TRUE

\* property_images.source_image_url is UNIQUE (NULLs do not collide).
UniqueSourceImageUrl(imgs) ==
    \A r1 \in imgs : \A r2 \in imgs :
        (r1.source_image_url = r2.source_image_url /\ r1.source_image_url # None)
            => r1.id = r2.id

\* property_images.property_metadata_id is NOT NULL and references
\* property_metadata.id.
ForeignKeyHolds(props, imgs) ==
    \A r \in imgs :
        /\ r.property_metadata_id # None
        /\ \E p \in props : p.id = r.property_metadata_id[1]

\* What the commit of a transaction on property_metadata checks.
PropertyConstraints(props) == UniqueSourceUrl(props)

\* What the commit of a transaction on property_images checks.
ImageConstraints(props, imgs) ==
    UniqueSourceImageUrl(imgs) /\ ForeignKeyHolds(props, imgs)

\* A rollback that leaves what the session had flushed.
RollbackKeepsStaged(before, staged) == staged

\* A rollback that leaves the first row the session had flushed.
RollbackKeepsFirst(before, staged) ==
    IF staged \ before = {} THEN before
    ELSE before \cup {CHOOSE r \in staged \ before :
                         \A q \in staged \ before : r.id <= q.id}

\* session.rollback(): the database keeps the state before the transaction.
Rollback(before, staged) == before

-----------------------------------------------------------------------------
(* The session of an upsert call. *)

\* A call that opens no session.
NoSession == [tx |-> "none", open |-> FALSE]

\* A session closed at the end of the try block only.
session_close_in_try(tx) == [tx |-> tx, open |-> tx # "committed"]

\* `finally: session.close()` (operations.py lines 239-240 and 515-516),
\* after the commit (line 224, 491) or after the rollback of the handler
\* (lines 236-237, 512-513): `tx` is how the transaction ended.
session_close(tx) == [tx |-> tx, open |-> FALSE]

-----------------------------------------------------------------------------
(* upsert_property *)

\* A merge that assigns the incoming value whether or not it is null.
MergeFieldOverwrite(stored, incoming) == incoming

\* `if incoming.f is not None: existing.f = incoming.f`
MergeField(stored, incoming) == IF incoming # None THEN incoming ELSE stored

\* Lines 205-214: the field-level merge onto the existing row.
MergeProperty(existing, rec) ==
    [existing EXCEPT
        !.address = MergeField(@, rec.address),
        !.pending_date = MergeField(@, rec.pending_date),
        !.status = MergeField(@, rec.status),
        !.price = MergeField(@, rec.price),
        !.qr_code_url = MergeField(@, rec.qr_code_url)]

\* A lookup that filters on another column and so never finds the row.
FindPropertyByQrCode(props, url) == {r \in props : r.qr_code_url = url}

\* Lines 197-199: the rows the lookup by source_url matches.
FindProperty(props, url) == {r \in props : r.source_url = url}

\* session.add(property_metadata): the row the INSERT creates.
NewPropertyRow(rec, id) ==
    [id |-> id,
     source_url |-> rec.source_url,
     address |-> rec.address,
     pending_date |-> rec.pending_date,
     status |-> rec.status,
     price |-> rec.price,
     qr_code_url |-> rec.qr_code_url]

\* A reload that takes the first row of the table, whatever its id.
ReloadPropertyAnyRow(props, id) == CHOOSE r \in props : TRUE

\* Lines 230-232: the row reloaded by id after the commit.
ReloadProperty(props, id) == CHOOSE r \in props : r.id = id

\* One call of upsert_property on the tables `props`, with the sequence at
\* `nextId`; `fault` is the step at which the database fails ("none",
\* "lookup", "commit" or "reload").  The result names the new table, the
\* outcome and what is returned.
upsert_property(props, nextId, rec, fault) ==
    IF FalsyStr(rec.source_url)
    THEN [properties |-> props, nextId |-> nextId, outcome |-> "ValueError",
          failedAt |-> "validate", session |-> FALSE, scope |-> NoSession, commits |-> 0, is_new |-> <<>>, ret |-> <<>>]
    ELSE IF fault = "lookup"
    THEN [properties |-> Rollback(props, props), nextId |-> nextId,
          outcome |-> "Exception", failedAt |-> "lookup", session |-> TRUE, scope |-> session_close("rolled_back"), commits |-> 0,
          is_new |-> <<>>, ret |-> <<>>]
    ELSE
        LET found == FindProperty(props, rec.source_url)
            is_new == found = {}
            existing == CHOOSE r \in found : TRUE
            row == IF is_new THEN NewPropertyRow(rec, nextId)
                             ELSE MergeProperty(existing, rec)
            staged == IF is_new THEN props \cup {row}
                                ELSE (props \ {existing}) \cup {row}
            committed == fault # "commit" /\ PropertyConstraints(staged)
        IN  IF ~committed
            THEN [properties |-> Rollback(props, staged), nextId |-> nextId,
                  outcome |-> "Exception", failedAt |-> "commit", session |-> TRUE, scope |-> session_close("rolled_back"), commits |-> 1,
                  is_new |-> <<>>, ret |-> <<>>]
            ELSE IF fault = "reload"
            THEN [properties |-> staged,
                  nextId |-> IF is_new THEN nextId + 1 ELSE nextId,
                  outcome |-> "Exception", failedAt |-> "reload", session |-> TRUE, scope |-> session_close("rolled_back"), commits |-> 1,
                  is_new |-> <<>>, ret |-> <<>>]
            ELSE [properties |-> staged,
                  nextId |-> IF is_new THEN nextId + 1 ELSE nextId,
                  outcome |-> "ok", failedAt |-> "none", session |-> TRUE, scope |-> session_close("committed"), commits |-> 1,
                  is_new |-> <<is_new>>,
                  ret |-> <<ReloadProperty(staged, row.id)>>]

-----------------------------------------------------------------------------
(* delete_property *)

\* A delete that leaves the images of the property.
CascadeDeleteNone(imgs, property_id) == imgs

\* models.py lines 43 and 89: the images of the deleted property go with it
\* (cascade="all, delete-orphan", ON DELETE CASCADE).
CascadeDelete(imgs, property_id) ==
    {i \in imgs : i.property_metadata_id # Some(property_id)}

\* Lines 157-174: the row is looked up by id; deleting it deletes its images
\* (cascade="all, delete-orphan" and ON DELETE CASCADE).
delete_property(props, imgs, property_id, fault) ==
    IF fault = "lookup"
    THEN [properties |-> props, images |-> imgs, outcome |-> "Exception",
          failedAt |-> "lookup", ret |-> <<>>]
    ELSE
        LET found == {r \in props : r.id = property_id}
            stagedProps == props \ found
            stagedImgs == CascadeDelete(imgs, property_id)
        IN  IF found = {}
            THEN [properties |-> props, images |-> imgs, outcome |-> "ok",
                  failedAt |-> "none", ret |-> <<FALSE>>]
            ELSE IF fault = "commit"
            THEN [properties |-> Rollback(props, stagedProps),
                  images |-> Rollback(imgs, stagedImgs),
                  outcome |-> "Exception", failedAt |-> "commit", ret |-> <<>>]
            ELSE [properties |-> stagedProps, images |-> stagedImgs,
                  outcome |-> "ok", failedAt |-> "none", ret |-> <<TRUE>>]

-----------------------------------------------------------------------------
(* upsert_images *)

\* A test that takes no batch for empty.
EmptyBatchNever(batch) == FALSE

\* Line 434: `if not property_images`.
EmptyBatch(batch) == Len(batch) = 0

\* A validation that looks at the first record only.
ValidFirstImage(batch) ==
    /\ ~FalsyStr(batch[1].source_image_url)
    /\ ~FalsyInt(batch[1].property_metadata_id)

\* Lines 438-442: every record needs a source_image_url and a
\* property_metadata_id.
ValidImages(batch) ==
    \A i \in 1..Len(batch) :
        /\ ~FalsyStr(batch[i].source_image_url)
        /\ ~FalsyInt(batch[i].property_metadata_id)

\* A merge that assigns the category whether or not it is null.
MergeImageCategoryAlways(existing, rec) ==
    [existing EXCEPT
        !.property_metadata_id = MergeField(@, rec.property_metadata_id),
        !.category = rec.category,
        !.generated_image_url = MergeField(@, rec.generated_image_url),
        !.state = MergeField(@, rec.state)]

\* Lines 470-477: the field-level merge onto the existing image row.
MergeImage(existing, rec) ==
    [existing EXCEPT
        !.property_metadata_id = MergeField(@, rec.property_metadata_id),
        !.category = MergeField(@, rec.category),
        !.generated_image_url = MergeField(@, rec.generated_image_url),
        !.state = MergeField(@, rec.state)]

\* A lookup that queries the url of the first record only.
ExistingImageDictOfFirst(imgs, batch) ==
    LET hit == {r \in imgs : r.source_image_url = batch[1].source_image_url}
    IN  [u \in {r.source_image_url : r \in hit} |->
            CHOOSE r \in hit : r.source_image_url = u]

\* Lines 447-455: the stored rows whose source_image_url is in the batch, as
\* a lookup from the url to the row.
ExistingImageDict(imgs, batch) ==
    LET urls == {batch[i].source_image_url : i \in 1..Len(batch)}
        hit == {r \in imgs : r.source_image_url \in urls}
    IN  [u \in {r.source_image_url : r \in hit} |->
            CHOOSE r \in hit : r.source_image_url = u]

\* Lines 462-488: the loop over the batch.  A record whose url is in the
\* lookup is merged onto that row (the lookup is taken once, before the loop:
\* rows added by the loop are not in it); any other record is added to the
\* session.  `acc` collects the added records and the is_new flags.
RECURSIVE upsert_images_loop(_, _, _, _)
upsert_images_loop(batch, i, dict, acc) ==
    IF i > Len(batch)
    THEN [dict |-> dict, new |-> acc.new, is_new |-> acc.is_new]
    ELSE
        LET rec == batch[i]
        IN  IF rec.source_image_url \in DOMAIN dict
            THEN upsert_images_loop(batch, i + 1,
                    [dict EXCEPT ![rec.source_image_url] = MergeImage(@, rec)],
                    [acc EXCEPT !.is_new = Append(@, FALSE)])
            ELSE upsert_images_loop(batch, i + 1, dict,
                    [new |-> Append(acc.new, rec),
                     is_new |-> Append(acc.is_new, TRUE)])

\* The row an added record becomes: the k-th added record takes the k-th
\* value of the sequence.
NewImageRow(rec, id) ==
    [id |-> id,
     property_metadata_id |-> rec.property_metadata_id,
     category |-> rec.category,
     source_image_url |-> rec.source_image_url,
     generated_image_url |-> rec.generated_image_url,
     state |-> rec.state]

\* A flush that leaves in the table the rows of the batch only.
StagedImagesOnly(imgs, nextId, loop) ==
    {loop.dict[u] : u \in DOMAIN loop.dict}
    \cup {NewImageRow(loop.new[k], nextId + k - 1) : k \in 1..Len(loop.new)}

\* The table the flush of the session writes: the merged rows in place of
\* the rows they were loaded from, and the added rows.
StagedImages(imgs, nextId, loop) ==
    LET old == {r \in imgs : r.source_image_url \in DOMAIN loop.dict}
        merged == {loop.dict[u] : u \in DOMAIN loop.dict}
        added == {NewImageRow(loop.new[k], nextId + k - 1) : k \in 1..Len(loop.new)}
    IN  (imgs \ old) \cup merged \cup added

\* Result pairs that all hold the row of the first record.
ImageResultsOfFirst(batch, staged, nextId, loop) ==
    [i \in 1..Len(batch) |->
        IF loop.is_new[1]
        THEN CHOOSE r \in staged : r.id = nextId
        ELSE loop.dict[batch[1].source_image_url]]

\* Lines 494-510: the result pairs, one per record: the row reloaded by id
\* for an added record, the merged row for an updated one.
ImageResults(batch, staged, nextId, loop) ==
    LET newIndex(i) == Cardinality({j \in 1..i : loop.is_new[j]})
    IN  [i \in 1..Len(batch) |->
            IF loop.is_new[i]
            THEN CHOOSE r \in staged : r.id = nextId + newIndex(i) - 1
            ELSE loop.dict[batch[i].source_image_url]]

\* One call of upsert_images; `fault` as for upsert_property.
upsert_images(props, imgs, nextId, batch, fault) ==
    IF EmptyBatch(batch)
    THEN [images |-> imgs, nextId |-> nextId, outcome |-> "ok",
          failedAt |-> "none", session |-> FALSE, scope |-> NoSession, commits |-> 0, is_new |-> <<>>, ret |-> <<>>]
    ELSE IF ~ValidImages(batch)
    THEN [images |-> imgs, nextId |-> nextId, outcome |-> "ValueError",
          failedAt |-> "validate", session |-> FALSE, scope |-> NoSession, commits |-> 0, is_new |-> <<>>, ret |-> <<>>]
    ELSE IF fault = "lookup"
    THEN [images |-> Rollback(imgs, imgs), nextId |-> nextId,
          outcome |-> "Exception", failedAt |-> "lookup", session |-> TRUE, scope |-> session_close("rolled_back"), commits |-> 0,
          is_new |-> <<>>, ret |-> <<>>]
    ELSE
        LET loop == upsert_images_loop(batch, 1, ExistingImageDict(imgs, batch),
                                       [new |-> <<>>, is_new |-> <<>>])
            staged == StagedImages(imgs, nextId, loop)
            committed == fault # "commit" /\ ImageConstraints(props, staged)
            reloads == \E i \in 1..Len(batch) : loop.is_new[i]
        IN  IF ~committed
            THEN [images |-> Rollback(imgs, staged), nextId |-> nextId,
                  outcome |-> "Exception", failedAt |-> "commit", session |-> TRUE, scope |-> session_close("rolled_back"), commits |-> 1,
                  is_new |-> <<>>, ret |-> <<>>]
            ELSE IF fault = "reload" /\ reloads
            THEN [images |-> staged, nextId |-> nextId + Len(loop.new),
                  outcome |-> "Exception", failedAt |-> "reload", session |-> TRUE, scope |-> session_close("rolled_back"), commits |-> 1,
                  is_new |-> <<>>, ret |-> <<>>]
            ELSE [images |-> staged, nextId |-> nextId + Len(loop.new),
                  outcome |-> "ok", failedAt |-> "none", session |-> TRUE, scope |-> session_close("committed"), commits |-> 1,
                  is_new |-> loop.is_new,
                  ret |-> ImageResults(batch, staged, nextId, loop)]

-----------------------------------------------------------------------------
(* The photo-gallery walker: property_images_extractor.py. *)

\* An image card of the gallery: whether it holds an img.img-card element,
\* and that element's src attribute.
Card(url) == [img |-> TRUE, src |-> Some(url)]
CardWithoutImg == [img |-> FALSE, src |-> None]
CardWithEmptySrc == [img |-> TRUE, src |-> Some("")]

\* Lines 41-47: what one card adds to image_urls.
CardUrls(card) ==
    IF card.img /\ ~FalsyStr(card.src) THEN <<card.src[1]>> ELSE <<>>

RECURSIVE UrlsOfCards(_)
UrlsOfCards(cards) ==
    IF cards = <<>> THEN <<>>
    ELSE CardUrls(Head(cards)) \o UrlsOfCards(Tail(cards))

\* fetch_images on a view that shows `cards`.  `stop` is where it fails: 0
\* when the wait for the image cards times out, j when reading card j raises,
\* Len(cards) + 1 when nothing fails.  It returns what it had collected.
fetch_images(cards, stop) ==
    IF stop = 0 THEN <<>>
    ELSE UrlsOfCards(SubSeq(cards, 1, stop - 1))

\* Where fetch_images can stop: with no card in the view the wait times out.
Stops(cards) == IF cards = <<>> THEN {0} ELSE 0..(Len(cards) + 1)

\* The cards the page shows: those of the tab selected last, or of the view
\* the gallery opens with.
ViewCards(w) ==
    IF w.view = 0 THEN w.gallery.default ELSE w.gallery.tabs[w.view]

\* The card lists a tab or the opening view can hold.
TabContents ==
    {<<Card("A"), Card("B")>>,
     <<Card("B"), Card("C")>>,
     <<CardWithoutImg, Card("C"), CardWithEmptySrc>>}

\* The pages a run can meet: without a filter bar, or with a bar of up to
\* MaxTabs tabs.
Galleries ==
    {[bar |-> FALSE, tabs |-> <<>>, default |-> d] : d \in TabContents}
    \cup
    {[bar |-> TRUE, tabs |-> t, default |-> d] :
        t \in UNION {[1..k -> TabContents] : k \in 0..MaxTabs}, d \in TabContents}

\* The walker before extract_property_images is called on page `g`.
WalkOn(g) ==
    [pc |-> "closed", gallery |-> g, view |-> 0, opened |-> FALSE,
     n |-> 0, i |-> 0, all_image_urls |-> <<>>, image_urls |-> <<>>,
     enumerated |-> FALSE, attempted |-> {}, clicked |-> {}, scraped |-> <<>>,
     waitRaised |-> FALSE, escaped |-> FALSE,
     open |-> "none", close |-> "none", has_filter_bar |-> FALSE,
     selected |-> {}, fallbacks |-> 0, fallback_images |-> <<>>,
     openClicks |-> 0, tries |-> <<>>, clicks |-> <<>>, queries |-> 0,
     handles |-> <<>>, escapes |-> 0]

\* No run of the walker.
NoWalk ==
    [pc |-> "idle", gallery |-> [bar |-> FALSE, tabs |-> <<>>, default |-> <<>>],
     view |-> 0, opened |-> FALSE,
     n |-> 0, i |-> 0, all_image_urls |-> <<>>, image_urls |-> <<>>,
     enumerated |-> FALSE, attempted |-> {}, clicked |-> {}, scraped |-> <<>>,
     waitRaised |-> FALSE, escaped |-> FALSE,
     open |-> "none", close |-> "none", has_filter_bar |-> FALSE,
     selected |-> {}, fallbacks |-> 0, fallback_images |-> <<>>,
     openClicks |-> 0, tries |-> <<>>, clicks |-> <<>>, queries |-> 0,
     handles |-> <<>>, escapes |-> 0]

\* An extract_property_images that closes the gallery whenever the open
\* control was clicked, the dialog seen or not.
open_photo_gallery_closing(w, o) ==
    IF o = "ok"
    THEN [w EXCEPT !.pc = "opened", !.opened = TRUE, !.open = o,
                   !.openClicks = @ + 1]
    ELSE IF o = "button_timeout"
    THEN [w EXCEPT !.pc = "done", !.image_urls = <<>>, !.open = o]
    ELSE [w EXCEPT !.pc = "closing", !.image_urls = <<>>, !.open = o,
                   !.openClicks = @ + 1]

\* An extract_property_images that goes on whatever open_photo_gallery
\* returns.
open_photo_gallery_unchecked(w, o) ==
    [w EXCEPT !.pc = "opened", !.opened = (o = "ok"), !.open = o,
              !.openClicks = IF o = "button_timeout" THEN @ ELSE @ + 1]

\* Lines 234-235 and 54-88: open_photo_gallery.  `o` is "ok", or the step
\* that raises: the wait for the button, the click, the wait for the dialog.
\* When it returns False, extract_property_images returns [].
open_photo_gallery(w, o) ==
    IF o = "ok"
    THEN [w EXCEPT !.pc = "opened", !.opened = TRUE, !.open = o,
                   !.openClicks = @ + 1]
    ELSE [w EXCEPT !.pc = "done", !.image_urls = <<>>, !.open = o,
                   !.openClicks = IF o = "button_timeout" THEN @ ELSE @ + 1]

\* Lines 238-242 and 107-128: find_filter_bar.  `o` is what is_visible
\* does: "visible", "hidden" or "raises".  Without a bar the tabs are not
\* processed and image_urls stays [].
find_filter_bar(w, o) ==
    IF o = "visible"
    THEN [w EXCEPT !.pc = "tabs", !.has_filter_bar = TRUE]
    ELSE [w EXCEPT !.pc = "closing", !.has_filter_bar = FALSE]

\* Lines 171-177: the handler of process_filter_tabs; the fallback scrape
\* follows.
TabsHandler(w) == [w EXCEPT !.pc = "fallback", !.escaped = TRUE]

\* An enumeration whose loop leaves out position 0.
enumerate_tabs_from_one(w, o, count) ==
    IF o = "ok"
    THEN [w EXCEPT !.pc = "loop", !.n = count, !.i = 1, !.enumerated = TRUE,
                   !.queries = @ + 1]
    ELSE TabsHandler(w)

\* An enumeration that goes to the scrape of the first tab without its click.
enumerate_tabs_scraping(w, o, count) ==
    [w EXCEPT !.pc = "scrape", !.n = count, !.i = 0, !.enumerated = TRUE,
              !.queries = @ + 1]

\* Lines 145-151: the wait for the filter options and their enumeration.
\* `o` is "ok", "wait_timeout" or "query_raises"; `count` is the number of
\* tabs the query returns.
enumerate_tabs(w, o, count) ==
    IF o = "ok"
    THEN [w EXCEPT !.pc = "loop", !.n = count, !.i = 0, !.enumerated = TRUE,
                   !.queries = @ + 1]
    ELSE IF o = "query_raises"
    THEN TabsHandler([w EXCEPT !.queries = @ + 1])
    ELSE TabsHandler(w)

\* A click_filter_tab that lets its exception reach the handler of
\* process_filter_tabs.
AfterFailedClickAborts(w) == TabsHandler(w)

\* A loop that tries the position again after a failure.
AfterFailedClickRetries(w) == [w EXCEPT !.pc = "loop"]

\* A click on the handle of the enumeration of line 150.
ClickedHandleCached(enumeration, requery) == enumeration

\* Lines 193-204: the handle clicked is filter_tabs[index] of the query of
\* line 193; handles are named by the number of the query that returned them
\* (the enumeration of line 150 is query 1).
ClickedHandle(enumeration, requery) == requery

\* Lines 210-216: click_filter_tab returns success False; the loop goes on
\* with the next position.
AfterFailedClick(w) == [w EXCEPT !.pc = "loop", !.i = @ + 1]

\* Lines 156 and 179-216: click_filter_tab for position i.  `count` is the
\* number of tabs the re-query returns; `o` is "ok", or the step that raises:
\* "query_raises", "text_raises", "click_raises", "wait_raises".
click_filter_tab(w, o, count) ==
    LET tried == [w EXCEPT !.attempted = @ \cup {w.i},
                           !.tries = Append(@, w.i),
                           !.queries = @ + 1]
        clicking == [tried EXCEPT
                        !.clicks = Append(@, w.i),
                        !.handles = Append(@, [handle |-> ClickedHandle(1, tried.queries),
                                               latest |-> tried.queries])]
    IN  IF o = "query_raises" \/ w.i >= count \/ o = "text_raises"
        THEN AfterFailedClick(tried)
        ELSE IF o = "click_raises"
        THEN AfterFailedClick(clicking)
        ELSE IF o = "wait_raises"
        THEN AfterFailedClick([clicking EXCEPT !.view = w.i + 1,
                                               !.clicked = @ \cup {w.i},
                                               !.waitRaised = TRUE])
        ELSE [clicking EXCEPT !.pc = "scrape", !.view = w.i + 1,
                              !.clicked = @ \cup {w.i},
                              !.selected = @ \cup {w.i}]

\* An extend that puts the tab's images in front of the list.
ExtendInFront(all, tab_images) == tab_images \o all

\* Line 167: all_image_urls.extend(tab_images).
Extend(all, tab_images) == all \o tab_images

\* A loop that a failure inside fetch_images leaves for the handler.
scrape_tab_fetch_raises(w, o, stop) ==
    IF o = "wait_raises" \/ stop <= Len(ViewCards(w))
    THEN TabsHandler([w EXCEPT !.waitRaised = (o = "wait_raises")])
    ELSE
        LET tab_images == fetch_images(ViewCards(w), stop)
        IN  [w EXCEPT !.pc = "loop", !.i = @ + 1,
                      !.all_image_urls = Extend(@, tab_images),
                      !.scraped = Append(@, [pos |-> w.i, urls |-> tab_images,
                                             complete |-> TRUE])]

\* Lines 158-167: the settle wait, fetch_images and the extend, after a
\* click that succeeded.  `o` is "ok" or "wait_raises".
scrape_tab(w, o, stop) ==
    IF o = "wait_raises"
    THEN TabsHandler([w EXCEPT !.waitRaised = TRUE])
    ELSE
        LET tab_images == fetch_images(ViewCards(w), stop)
        IN  [w EXCEPT !.pc = "loop", !.i = @ + 1,
                      !.all_image_urls = Extend(@, tab_images),
                      !.scraped = Append(@, [pos |-> w.i, urls |-> tab_images,
                                             complete |-> stop = Len(ViewCards(w)) + 1])]

\* A loop that does not leave once the last position is behind it.
return_tabs_never(w) == w

\* Line 169: the loop has ended; process_filter_tabs returns all_image_urls.
return_tabs(w) == [w EXCEPT !.pc = "closing", !.image_urls = w.all_image_urls]

\* A handler that returns the images of the earlier tabs with the fallback's.
fallback_scrape_carrying(w, stop) ==
    LET fallback_images == fetch_images(ViewCards(w), stop)
    IN  [w EXCEPT !.pc = "closing",
                  !.image_urls = w.all_image_urls \o fallback_images,
                  !.fallbacks = @ + 1, !.fallback_images = fallback_images]

\* Lines 175-177: the fallback scrape of the view the page shows.
fallback_scrape(w, stop) ==
    LET fallback_images == fetch_images(ViewCards(w), stop)
    IN  [w EXCEPT !.pc = "closing", !.image_urls = fallback_images,
                  !.fallbacks = @ + 1, !.fallback_images = fallback_images]

\* A close_gallery that lets its exception out: the handler of
\* extract_property_images calls it again, and the second exception leaves
\* the function without a result.
close_gallery_raises(w, o) ==
    IF o = "ok"
    THEN [w EXCEPT !.pc = "done", !.close = o, !.escapes = @ + 1]
    ELSE [w EXCEPT !.pc = "raised", !.close = o, !.escapes = @ + 2]

\* Lines 245-247 and 90-105: close_gallery, whatever it does, and the
\* return of image_urls.  `o` is "ok", or the step that raises: "key_raises",
\* "hidden_timeout".
close_gallery(w, o) ==
    [w EXCEPT !.pc = "done", !.close = o, !.escapes = @ + 1]

-----------------------------------------------------------------------------
(* The calls the model makes: the inputs are drawn from small sets. *)

SourceUrls == {Some("u1"), Some("u2")}
Faults == {"none", "lookup", "commit", "reload"}

PropertyRecord(url, address, pending_date, status, price, qr_code_url) ==
    [source_url |-> url, address |-> address, pending_date |-> pending_date,
     status |-> status, price |-> price, qr_code_url |-> qr_code_url]

\* Records of u1 with every combination of null and non-null fields, and a
\* second key, a missing key and an empty key with fewer field values.
DeepPropertyInputs ==
    {PropertyRecord(Some("u1"), a, d, s, p, q) :
        a \in {None, Some("a1")}, d \in {None, Some("d1")},
        s \in {None, Some("PENDING")},
        p \in {None, Some(500000), Some(450000)}, q \in {None, Some("q1")}}
    \cup
    {PropertyRecord(u, Some("a2"), None, s, None, None) :
        u \in {None, Some(""), Some("u2")}, s \in {None, Some("ACTIVE")}}

\* Records that only create the rows images refer to.
KeyPropertyInputs ==
    {PropertyRecord(u, Some("a1"), None, None, None, None) : u \in SourceUrls}

\* Records of two callers: either url, either address, with and without a
\* price.
RaceInputs ==
    {PropertyRecord(u, a, None, None, p, None) :
        u \in SourceUrls, a \in {Some("a1"), Some("a2")},
        p \in {None, Some(450000)}}

ImageRecord(url, property_id, category, generated_image_url, state) ==
    [source_image_url |-> url, property_metadata_id |-> property_id,
     category |-> category, generated_image_url |-> generated_image_url,
     state |-> state]

\* Valid records: two urls, under either property, with null and non-null
\* values of every field.
ValidImageInputs ==
    {ImageRecord(Some("i1"), Some(1), Some("Kitchen"), None, None),
     ImageRecord(Some("i1"), Some(1), None, Some("g1"), Some("s1")),
     ImageRecord(Some("i1"), Some(2), Some("Bath"), None, None),
     ImageRecord(Some("i2"), Some(2), None, None, None),
     ImageRecord(Some("i2"), Some(1), Some("Bath"), Some("g1"), None)}

\* Records with a missing or empty url, or a missing or zero property id.
InvalidImageInputs ==
    {ImageRecord(None, Some(1), Some("Kitchen"), None, None),
     ImageRecord(Some(""), Some(1), None, None, None),
     ImageRecord(Some("i1"), None, Some("Kitchen"), None, None),
     ImageRecord(Some("i2"), Some(0), None, None, None)}

\* A record of a property that is not stored.
OrphanImageInputs ==
    {ImageRecord(Some("i2"), Some(9), None, None, None)}

\* The records the batches of two and more are made of.
PairImageInputs ==
    {ImageRecord(Some("i1"), Some(1), Some("Kitchen"), None, None),
     ImageRecord(Some("i1"), Some(2), None, Some("g1"), Some("s1")),
     ImageRecord(Some("i2"), Some(2), Some("Bath"), None, None),
     ImageRecord(Some("i1"), None, Some("Kitchen"), None, None)}

ImageBatches ==
    {<<>>}
    \cup {<<r>> : r \in ValidImageInputs \cup InvalidImageInputs \cup OrphanImageInputs}
    \cup UNION {[1..n -> PairImageInputs] : n \in 2..MaxBatchLen}

\* The batches of the specification that also inserts and deletes properties.
FewImageBatches ==
    {<<>>}
    \cup {<<r>> : r \in {ImageRecord(Some("i1"), Some(1), Some("Kitchen"), None, None),
                         ImageRecord(Some("i1"), Some(2), None, None, None),
                         ImageRecord(Some("i2"), Some(2), Some("Bath"), None, None)}}
    \cup {<<ImageRecord(Some("i1"), Some(1), None, None, Some("s1")),
            ImageRecord(Some("i2"), Some(1), None, None, None)>>,
          <<ImageRecord(Some("i2"), Some(1), Some("Kitchen"), None, None),
            ImageRecord(Some("i2"), Some(2), None, None, None)>>}

NoSupply == [f \in PropertyFields |-> None]

-----------------------------------------------------------------------------
(* extract_property_data and upsert_to_db: main_extractor.py. *)

\* What the metadata extractors read from a property page.
PageData(url, address, pending_date, price) ==
    [url |-> url, address |-> address, pending_date |-> pending_date,
     price |-> price]

\* property_metadata_extractor.py lines 67 and 110: the dict
\* extract_property_address returns when it finds no address: {}, not None.
EmptyAddress == Some("{}")

\* The pages of repeated crawls: two urls, each field found or not.
ExtractedPages ==
    {PageData(u, a, d, p) :
        u \in SourceUrls, a \in {Some("a1"), EmptyAddress},
        d \in {None, Some("d1")}, p \in {None, Some(500000)}}

CrawlPages ==
    {PageData(Some("u1"), Some("a1"), None, Some(500000)),
     PageData(Some("u1"), Some("a1"), Some("d1"), None),
     PageData(None, Some("a1"), None, None)}

\* The galleries of the pages.
CrawlGalleries ==
    {[bar |-> FALSE, tabs |-> <<>>, default |-> <<Card("A"), Card("B")>>],
     [bar |-> TRUE, tabs |-> << <<Card("A"), Card("B")>>, <<Card("B"), Card("C")>> >>,
      default |-> <<Card("A"), Card("B")>>],
     [bar |-> TRUE, tabs |-> << <<CardWithoutImg, Card("C"), CardWithEmptySrc>> >>,
      default |-> <<Card("B"), Card("C")>>]}

\* property_metadata_extractor.py lines 197-224: the PropertyMetadata object
\* built from the page, or None when building it raises (`o` = "raises").
extract_property_metadata(page, o) ==
    IF o = "raises" THEN None
    ELSE Some(PropertyRecord(page.url, page.address, page.pending_date,
                             IF ~FalsyStr(page.pending_date)
                             THEN Some("PENDING") ELSE Some("ACTIVE"),
                             page.price, None))

\* main_extractor.py lines 132-171: upsert_to_db(property_metadata,
\* property_images), where property_images is the list of URL strings the
\* walker returned.  Every exception of the try is caught and None is
\* returned: that of upsert_property; the AttributeError of
\* property_metadata.source_url when the metadata is None; the AttributeError
\* of `image.property_metadata_id = saved_property.id` (line 162) on the first
\* image, a str, after upsert_property has committed.  The call of
\* upsert_images (line 165) is not reached.
\* An upsert_to_db whose property write is undone when the image step fails.
upsert_to_db_try_one_transaction(props, nextId, property_metadata, property_images, fault) ==
    IF property_metadata = None
    THEN [called |-> FALSE, call |-> <<>>, properties |-> props, nextId |-> nextId,
          ret |-> None, error |-> "AttributeError", step |-> "upsert_property",
          failedAt |-> "none"]
    ELSE
        LET r == upsert_property(props, nextId, property_metadata[1], fault)
        IN  IF r.outcome # "ok"
            THEN [called |-> TRUE, call |-> r, properties |-> r.properties,
                  nextId |-> r.nextId, ret |-> None, error |-> r.outcome,
                  step |-> "upsert_property", failedAt |-> r.failedAt]
            ELSE [called |-> TRUE, call |-> r, properties |-> props,
                  nextId |-> nextId, ret |-> None, error |-> "AttributeError",
                  step |-> "assign", failedAt |-> "none"]

\* main_extractor.py lines 160-162 on a list of PropertyImage objects: every
\* image is given the id of the saved property.
with_property_id(property_images, id) ==
    [i \in DOMAIN property_images |->
        [property_images[i] EXCEPT !.property_metadata_id = Some(id)]]

\* main_extractor.py lines 160-165 on a list of PropertyImage objects: the
\* call of upsert_images with the images so assigned.
upsert_to_db_images(props, imgs, nextId, saved_property, property_images, fault) ==
    upsert_images(props, imgs, nextId,
                  with_property_id(property_images, saved_property.id), fault)

upsert_to_db_try(props, nextId, property_metadata, property_images, fault) ==
    IF property_metadata = None
    THEN [called |-> FALSE, call |-> <<>>, properties |-> props, nextId |-> nextId,
          ret |-> None, error |-> "AttributeError", step |-> "upsert_property",
          failedAt |-> "none"]
    ELSE
        LET r == upsert_property(props, nextId, property_metadata[1], fault)
        IN  IF r.outcome # "ok"
            THEN [called |-> TRUE, call |-> r, properties |-> r.properties,
                  nextId |-> r.nextId, ret |-> None, error |-> r.outcome,
                  step |-> "upsert_property", failedAt |-> r.failedAt]
            ELSE [called |-> TRUE, call |-> r, properties |-> r.properties,
                  nextId |-> r.nextId, ret |-> None, error |-> "AttributeError",
                  step |-> "assign", failedAt |-> "none"]

\* An upsert_to_db without the test of lines 143-146.
upsert_to_db_unguarded(props, nextId, property_metadata, property_images, fault) ==
    upsert_to_db_try(props, nextId, property_metadata, property_images, fault)

\* main_extractor.py lines 143-146: with an empty list of images nothing is
\* saved and None is returned; otherwise the try block of lines 148-171.
upsert_to_db(props, nextId, property_metadata, property_images, fault) ==
    IF property_images = <<>>
    THEN [called |-> FALSE, call |-> <<>>, properties |-> props, nextId |-> nextId,
          ret |-> None, error |-> "none", step |-> "skip", failedAt |-> "none"]
    ELSE upsert_to_db_try(props, nextId, property_metadata, property_images, fault)

\* No call of extract_property_data.
NoCrawl ==
    [pc |-> "idle", metadata |-> None, ret |-> None, error |-> "none",
     step |-> "none", failedAt |-> "none"]

-----------------------------------------------------------------------------
(* Two calls of upsert_property at the same time. *)

Callers == {1, 2}

\* A call not yet made.
NoCaller ==
    [pc |-> "idle", rec |-> None, found |-> None, outcome |-> "none",
     produced |-> None, at |-> 0, raced |-> FALSE, scope |-> NoSession]

NoCallers == [c \in Callers |-> NoCaller]

\* Line 224, on a row the session loaded: the unit of work writes the
\* columns whose value the merge changed, into the row as the table holds it
\* at the commit.
FlushUpdate(cur, loaded, merged) ==
    [f \in DOMAIN cur |-> IF merged[f] # loaded[f] THEN merged[f] ELSE cur[f]]

\* Lines 197-224 at the commit of a call whose lookup loaded `found`: the
\* table the flush asks for, and the row the call has produced.
RaceStaged(props, nextId, rec, found) ==
    IF found = None
    THEN LET row == NewPropertyRow(rec, nextId)
         IN  [staged |-> props \cup {row}, produced |-> row, is_new |-> TRUE]
    ELSE LET loaded == found[1]
             merged == MergeProperty(loaded, rec)
             cur == CHOOSE r \in props : r.id = loaded.id
         IN  [staged |-> (props \ {cur}) \cup {FlushUpdate(cur, loaded, merged)},
              produced |-> merged, is_new |-> FALSE]

\* A batch of valid records of stored properties in which a url that is not
\* stored occurs twice.
RepeatsNewUrl(props, imgs, batch) ==
    /\ batch # <<>>
    /\ ValidImages(batch)
    /\ \A i \in 1..Len(batch) :
          \E p \in props : Some(p.id) = batch[i].property_metadata_id
    /\ \E i \in 1..Len(batch) : \E j \in 1..Len(batch) :
          /\ i < j
          /\ batch[i].source_image_url = batch[j].source_image_url
          /\ ~\E r \in imgs : r.source_image_url = batch[i].source_image_url

-----------------------------------------------------------------------------
(* State machine. *)

NoCall ==
    [op |-> "init", outcome |-> "ok", failedAt |-> "none", session |-> FALSE,
     is_new |-> <<>>, changed |-> FALSE, batch |-> <<>>, n |-> 0,
     repeat |-> FALSE, mixed |-> FALSE, moved |-> FALSE, emptied |-> FALSE,
     tx |-> "none", open |-> FALSE, cascaded |-> FALSE, commits |-> 0,
     dup |-> FALSE]

Init ==
    /\ properties = {}
    /\ images = {}
    /\ nextPropertyId = 1
    /\ nextImageId = 1
    /\ last = NoCall
    /\ supplied = [u \in SourceUrls |-> [value |-> NoSupply, exact |-> TRUE]]
    /\ walker = NoWalk
    /\ crawl = NoCrawl
    /\ callers = NoCallers

\* What `last` records of a call of upsert_property that ended as `r`.
LastOfUpsertProperty(r, before) ==
    [op |-> "upsert_property",
     outcome |-> r.outcome, failedAt |-> r.failedAt,
     session |-> r.session, is_new |-> r.is_new,
     changed |-> r.properties # before,
     batch |-> <<>>, n |-> 0, repeat |-> FALSE,
     mixed |-> FALSE, moved |-> FALSE,
     emptied |-> \E o \in before : \E n \in r.properties :
                    /\ o.id = n.id
                    /\ o.address \notin {None, EmptyAddress}
                    /\ n.address \in {None, EmptyAddress},
     tx |-> r.scope.tx, open |-> r.scope.open,
     cascaded |-> FALSE, commits |-> r.commits, dup |-> FALSE]

\* The history of the values supplied, after a call of upsert_property with
\* `rec` that ended as `r`.
SuppliedAfter(sup, rec, r) ==
    IF r.failedAt = "reload"
    THEN [sup EXCEPT ![rec.source_url] = [value |-> NoSupply, exact |-> FALSE]]
    ELSE IF r.outcome = "ok" /\ sup[rec.source_url].exact
    THEN [sup EXCEPT ![rec.source_url].value =
            [f \in PropertyFields |-> IF rec[f] # None THEN rec[f] ELSE @[f]]]
    ELSE sup

\* upsert_property(rec), the database failing at `fault` (or not at all).
UpsertProperty(rec, fault) ==
    \E r \in {upsert_property(properties, nextPropertyId, rec, fault)} :
        /\ r.nextId <= MaxPropertyId + 1
        /\ properties' = r.properties
        /\ nextPropertyId' = r.nextId
        /\ last' = LastOfUpsertProperty(r, properties)
        /\ supplied' = SuppliedAfter(supplied, rec, r)
        /\ UNCHANGED <<images, nextImageId, walker, crawl, callers>>

\* upsert_images(batch), the database failing at `fault` (or not at all).
UpsertImages(batch, fault) ==
    \E r \in {upsert_images(properties, images, nextImageId, batch, fault)} :
        /\ r.nextId <= MaxImageId + 1
        /\ images' = r.images
        /\ nextImageId' = r.nextId
        /\ last' = [op |-> "upsert_images",
                    outcome |-> r.outcome, failedAt |-> r.failedAt,
                    session |-> r.session, is_new |-> r.is_new,
                    changed |-> r.images # images,
                    batch |-> IF r.outcome = "ok" THEN batch ELSE <<>>,
                    n |-> Len(batch),
                    repeat |-> r.outcome = "ok" /\ Len(batch) > 0
                               /\ last.batch = batch,
                    mixed |-> /\ \E i \in 1..Len(batch) : ValidImages(<<batch[i]>>)
                              /\ \E i \in 1..Len(batch) : ~ValidImages(<<batch[i]>>),
                    moved |-> \E o \in images : \E n \in r.images :
                                 /\ o.id = n.id
                                 /\ o.property_metadata_id # n.property_metadata_id,
                    emptied |-> FALSE,
                    tx |-> r.scope.tx, open |-> r.scope.open,
                    cascaded |-> FALSE, commits |-> r.commits,
                    dup |-> RepeatsNewUrl(properties, images, batch)]
        /\ UNCHANGED <<properties, nextPropertyId, supplied, walker, crawl, callers>>

\* delete_property(property_id), the database failing at `fault`.
DeleteProperty(property_id, fault) ==
    \E r \in {delete_property(properties, images, property_id, fault)} :
    LET gone == {p.source_url : p \in properties \ r.properties}
    IN  /\ properties' = r.properties
        /\ images' = r.images
        /\ last' = [op |-> "delete_property",
                    outcome |-> r.outcome, failedAt |-> r.failedAt,
                    session |-> TRUE, is_new |-> <<>>,
                    changed |-> r.properties # properties,
                    batch |-> <<>>, n |-> 0, repeat |-> FALSE,
                    mixed |-> FALSE, moved |-> FALSE, emptied |-> FALSE,
                    tx |-> IF r.outcome = "ok" THEN "committed" ELSE "rolled_back",
                    open |-> FALSE,
                    cascaded |-> r.images # images,
                    commits |-> IF r.failedAt = "lookup" \/ r.ret = <<FALSE>>
                                THEN 0 ELSE 1,
                    dup |-> FALSE]
        /\ supplied' = [u \in SourceUrls |->
                          IF u \in gone
                          THEN [value |-> NoSupply, exact |-> TRUE]
                          ELSE supplied[u]]
        /\ UNCHANGED <<nextPropertyId, nextImageId, walker, crawl, callers>>

\* The storage layer under calls of all three operations.
Next ==
    \/ \E rec \in KeyPropertyInputs : \E fault \in Faults : UpsertProperty(rec, fault)
    \/ \E batch \in FewImageBatches : \E fault \in Faults : UpsertImages(batch, fault)
    \/ \E id \in 1..MaxPropertyId : \E fault \in {"none", "lookup", "commit"} :
           DeleteProperty(id, fault)

Spec == Init /\ [][Next]_vars

\* The walker's steps.  Each leaves the storage layer alone.
OpenPhotoGallery ==
    /\ walker.pc = "closed"
    /\ \E o \in {"ok", "button_timeout", "click_raises", "dialog_timeout"} :
          walker' = open_photo_gallery(walker, o)
    /\ UNCHANGED <<storage, crawl, callers>>

FindFilterBar ==
    /\ walker.pc = "opened"
    /\ \E o \in (IF walker.gallery.bar THEN {"visible"} ELSE {}) \cup {"hidden", "raises"} :
          walker' = find_filter_bar(walker, o)
    /\ UNCHANGED <<storage, crawl, callers>>

EnumerateTabs ==
    /\ walker.pc = "tabs"
    /\ \/ \E o \in {"wait_timeout", "query_raises"} :
             walker' = enumerate_tabs(walker, o, 0)
       \/ /\ walker.gallery.tabs # <<>>
          /\ \E count \in 0..Len(walker.gallery.tabs) :
                walker' = enumerate_tabs(walker, "ok", count)
    /\ UNCHANGED <<storage, crawl, callers>>

ClickFilterTab ==
    /\ walker.pc = "loop"
    /\ walker.i < walker.n
    /\ \E o \in {"ok", "query_raises", "text_raises", "click_raises", "wait_raises"} :
       \E count \in 0..Len(walker.gallery.tabs) :
          walker' = click_filter_tab(walker, o, count)
    /\ UNCHANGED <<storage, crawl, callers>>

ScrapeTab ==
    /\ walker.pc = "scrape"
    /\ \E o \in {"ok", "wait_raises"} : \E stop \in Stops(ViewCards(walker)) :
          walker' = scrape_tab(walker, o, stop)
    /\ UNCHANGED <<storage, crawl, callers>>

ReturnTabs ==
    /\ walker.pc = "loop"
    /\ walker.i >= walker.n
    /\ walker' = return_tabs(walker)
    /\ UNCHANGED <<storage, crawl, callers>>

FallbackScrape ==
    /\ walker.pc = "fallback"
    /\ \E stop \in Stops(ViewCards(walker)) :
          walker' = fallback_scrape(walker, stop)
    /\ UNCHANGED <<storage, crawl, callers>>

CloseGallery ==
    /\ walker.pc = "closing"
    /\ \E o \in {"ok", "key_raises", "hidden_timeout"} :
          walker' = close_gallery(walker, o)
    /\ UNCHANGED <<storage, crawl, callers>>

\* One run of extract_property_images on any of the pages.
WalkerInit ==
    /\ properties = {}
    /\ images = {}
    /\ nextPropertyId = 1
    /\ nextImageId = 1
    /\ last = NoCall
    /\ supplied = [u \in SourceUrls |-> [value |-> NoSupply, exact |-> TRUE]]
    /\ \E g \in Galleries : walker = WalkOn(g)
    /\ crawl = NoCrawl
    /\ callers = NoCallers

WalkerNext ==
    \/ OpenPhotoGallery
    \/ FindFilterBar
    \/ EnumerateTabs
    \/ ClickFilterTab
    \/ ScrapeTab
    \/ ReturnTabs
    \/ FallbackScrape
    \/ CloseGallery

WalkerSpec == WalkerInit /\ [][WalkerNext]_vars

\* Lines 191-194 of a call of upsert_property by caller c: the url is there,
\* the session is opened.  The call races if the other one is under way.
RaceBegin(c) ==
    /\ callers[c].pc = "idle"
    /\ \E rec \in RaceInputs :
          callers' = [callers EXCEPT ![c] =
                        [@ EXCEPT !.pc = "lookup", !.rec = Some(rec),
                                  !.raced = \E d \in Callers \ {c} :
                                               callers[d].pc \in {"lookup", "commit"}]]
    /\ UNCHANGED <<storage, walker, crawl>>

\* Lines 197-199: the lookup loads the committed row, if there is one.
RaceLookup(c) ==
    /\ callers[c].pc = "lookup"
    /\ LET found == FindProperty(properties, callers[c].rec[1].source_url)
       IN  callers' = [callers EXCEPT ![c] =
                         [@ EXCEPT !.pc = "commit",
                                   !.found = IF found = {} THEN None
                                             ELSE Some(CHOOSE r \in found : TRUE)]]
    /\ UNCHANGED <<storage, walker, crawl>>

\* Lines 201-240: the merge or the add, the commit, and the return or the
\* rollback and the exception.
RaceCommit(c) ==
    /\ callers[c].pc = "commit"
    /\ \E r \in {RaceStaged(properties, nextPropertyId, callers[c].rec[1],
                             callers[c].found)} :
          IF PropertyConstraints(r.staged)
          THEN /\ r.is_new => nextPropertyId <= MaxPropertyId
               /\ properties' = r.staged
               /\ nextPropertyId' = IF r.is_new THEN nextPropertyId + 1
                                                ELSE nextPropertyId
               /\ callers' = [callers EXCEPT ![c] =
                                [@ EXCEPT !.pc = "done", !.outcome = "ok",
                                          !.scope = session_close("committed"),
                                          !.produced = Some(r.produced),
                                          !.at = 1 + Cardinality({d \in Callers :
                                                      callers[d].at > 0})]]
          ELSE /\ properties' = Rollback(properties, r.staged)
               /\ nextPropertyId' = nextPropertyId
               /\ callers' = [callers EXCEPT ![c] =
                                [@ EXCEPT !.pc = "done", !.outcome = "Exception",
                                          !.scope = session_close("rolled_back")]]
    /\ UNCHANGED <<images, nextImageId, last, supplied, walker, crawl>>

\* Two calls on a table that is empty or holds u1.
RaceInit ==
    /\ \/ /\ properties = {}
          /\ nextPropertyId = 1
       \/ /\ properties = {NewPropertyRow(PropertyRecord(Some("u1"), Some("a1"), None,
                                                         None, Some(500000), None), 1)}
          /\ nextPropertyId = 2
    /\ images = {}
    /\ nextImageId = 1
    /\ last = NoCall
    /\ supplied = [u \in SourceUrls |-> [value |-> NoSupply, exact |-> TRUE]]
    /\ walker = NoWalk
    /\ crawl = NoCrawl
    /\ callers = NoCallers

RaceNext == \E c \in Callers : RaceBegin(c) \/ RaceLookup(c) \/ RaceCommit(c)

RaceSpec == RaceInit /\ [][RaceNext]_vars

\* The same run, every call of the page returning or raising in the end (each
\* wait has a timeout: lines 73, 81, 100, 147, 160, 207): the sequential code
\* always takes its next step.
WalkerLiveSpec == WalkerInit /\ [][WalkerNext]_vars /\ WF_vars(WalkerNext)

\* main_extractor.py lines 116-118: extract_property_data extracts the
\* metadata; the walker starts on the page's gallery.
ExtractMetadata ==
    /\ crawl.pc = "start"
    /\ \E page \in CrawlPages : \E o \in {"ok", "raises"} :
          crawl' = [crawl EXCEPT !.pc = "images",
                                 !.metadata = extract_property_metadata(page, o)]
    /\ \E g \in CrawlGalleries : walker' = WalkOn(g)
    /\ UNCHANGED <<storage, callers>>

\* main_extractor.py lines 123-126: once the walker has returned,
\* upsert_to_db is called and its result returned.
SaveToDb ==
    /\ crawl.pc = "images"
    /\ walker.pc = "done"
    /\ \E fault \in Faults :
       \E d \in {upsert_to_db(properties, nextPropertyId, crawl.metadata,
                              walker.image_urls, fault)} :
          /\ d.nextId <= MaxPropertyId + 1
          /\ properties' = d.properties
          /\ nextPropertyId' = d.nextId
          /\ crawl' = [crawl EXCEPT !.pc = "returned", !.ret = d.ret,
                                    !.error = d.error, !.step = d.step,
                                    !.failedAt = d.failedAt]
          /\ IF d.called
             THEN /\ last' = LastOfUpsertProperty(d.call, properties)
                  /\ supplied' = SuppliedAfter(supplied, crawl.metadata[1], d.call)
             ELSE UNCHANGED <<last, supplied>>
    /\ UNCHANGED <<images, nextImageId, walker, callers>>

\* One call of extract_property_data on any of the pages, on a table that
\* holds u2.
CrawlInit ==
    /\ properties = {NewPropertyRow(PropertyRecord(Some("u2"), Some("a1"), None,
                                                   None, None, None), 1)}
    /\ images = {}
    /\ nextPropertyId = 2
    /\ nextImageId = 1
    /\ last = NoCall
    /\ supplied = [u \in SourceUrls |->
                     [value |-> IF u = Some("u2")
                                THEN [NoSupply EXCEPT !.address = Some("a1")]
                                ELSE NoSupply,
                      exact |-> TRUE]]
    /\ walker = NoWalk
    /\ crawl = [NoCrawl EXCEPT !.pc = "start"]
    /\ callers = NoCallers

CrawlNext ==
    \/ ExtractMetadata
    \/ OpenPhotoGallery
    \/ FindFilterBar
    \/ EnumerateTabs
    \/ ClickFilterTab
    \/ ScrapeTab
    \/ ReturnTabs
    \/ FallbackScrape
    \/ CloseGallery
    \/ SaveToDb

CrawlSpec == CrawlInit /\ [][CrawlNext]_vars

\* Repeated crawls: upsert_property with the records extract_property_metadata
\* builds from the pages.
UpsertExtracted ==
    \E page \in ExtractedPages : \E fault \in Faults :
        UpsertProperty(extract_property_metadata(page, "ok")[1], fault)

MetadataSpec == Init /\ [][UpsertExtracted]_vars

\* upsert_property alone, with records of every shape.
PropertyNext ==
    \E rec \in DeepPropertyInputs : \E fault \in Faults : UpsertProperty(rec, fault)

PropertySpec == Init /\ [][PropertyNext]_vars

\* upsert_images alone, with batches of every shape, on a database that holds
\* two properties.
ImageInit ==
    /\ properties = {NewPropertyRow(PropertyRecord(Some("u1"), Some("a1"), None,
                                                   None, None, None), 1),
                     NewPropertyRow(PropertyRecord(Some("u2"), Some("a1"), None,
                                                   None, None, None), 2)}
    /\ images = {}
    /\ nextPropertyId = 3
    /\ nextImageId = 1
    /\ last = NoCall
    /\ supplied = [u \in SourceUrls |->
                     [value |-> [NoSupply EXCEPT !.address = Some("a1")],
                      exact |-> TRUE]]
    /\ walker = NoWalk
    /\ crawl = NoCrawl
    /\ callers = NoCallers

ImageNext ==
    \E batch \in ImageBatches : \E fault \in Faults : UpsertImages(batch, fault)

ImageSpec == ImageInit /\ [][ImageNext]_vars

-----------------------------------------------------------------------------
(* Properties of upsert_property, checked under PropertySpec. *)

\* The rows of a table that hold the url.
RowsOf(props, url) == {p \in props : p.source_url = url}

\* C1: storage holds at most one property row per source_url, and a call
\* whose source_url is stored updates that row and inserts none: whatever
\* the database does, the ids of the table stay the same and the url keeps
\* one row; when the database does not fail, the call succeeds and reports
\* is_new = false.
C1_OneRowPerSourceUrl ==
    /\ \A p1 \in properties : \A p2 \in properties :
          p1.source_url = p2.source_url => p1 = p2
    /\ \A rec \in DeepPropertyInputs : \A fault \in Faults :
          RowsOf(properties, rec.source_url) # {} =>
             \E r \in {upsert_property(properties, nextPropertyId, rec, fault)} :
                /\ {p.id : p \in r.properties} = {p.id : p \in properties}
                /\ Cardinality(RowsOf(r.properties, rec.source_url)) = 1
                /\ fault = "none" => (r.outcome = "ok" /\ r.is_new = <<FALSE>>)

\* An update of a stored url has succeeded in a table of two rows.
C1_Witness ==
    /\ last.op = "upsert_property"
    /\ last.outcome = "ok"
    /\ last.is_new = <<FALSE>>
    /\ last.changed
    /\ Cardinality(properties) = 2

C7_CommitFailureLeavesStorage ==
    [][(last'.op = "upsert_property" /\ last'.failedAt = "commit")
          => (/\ last'.outcome = "Exception"
              /\ properties' = properties
              /\ images' = images
              /\ nextPropertyId' = nextPropertyId)]_vars

\* The commit of an update has failed: both urls are stored, so the call
\* that failed had merged its fields onto a stored row.
C7_Witness ==
    /\ last.op = "upsert_property"
    /\ last.failedAt = "commit"
    /\ Cardinality(properties) = 2
    /\ \E p \in RowsOf(properties, Some("u1")) : p.price = Some(500000)

\* C12: a successful upsert_property call returns is_new = true iff no row
\* held the record's source_url when the call started, and the record it
\* returns is the one stored row of that source_url after the commit, whose
\* fields are the record's non-null values and else the values stored before.
C12_ReturnsStoredRowAndNovelty ==
    \A rec \in DeepPropertyInputs : \A fault \in Faults :
        \E r \in {upsert_property(properties, nextPropertyId, rec, fault)} :
            r.outcome = "ok" =>
                LET old == RowsOf(properties, rec.source_url)
                IN  /\ r.is_new = <<old = {}>>
                    /\ Len(r.ret) = 1
                    /\ RowsOf(r.properties, rec.source_url) = {r.ret[1]}
                    /\ \A f \in PropertyFields :
                          r.ret[1][f] =
                             IF rec[f] # None \/ old = {} THEN rec[f]
                             ELSE (CHOOSE o \in old : TRUE)[f]

\* A second url has been inserted next to a stored one: the call reported
\* is_new = true.
C12_Witness ==
    /\ last.op = "upsert_property"
    /\ last.outcome = "ok"
    /\ last.is_new = <<TRUE>>
    /\ last.changed
    /\ Cardinality(properties) = 2
    /\ nextPropertyId = 3

\* C13: upsert_property with a null or empty source_url raises the argument
\* error before any storage access: whatever the database would do, no
\* session is opened, the call fails at the validation, and the table and its
\* sequence are as before.
C13_MissingSourceUrlRejected ==
    \A rec \in DeepPropertyInputs : \A fault \in Faults :
        rec.source_url \in {None, Some("")} =>
            \E r \in {upsert_property(properties, nextPropertyId, rec, fault)} :
                /\ r.outcome = "ValueError"
                /\ r.failedAt = "validate"
                /\ ~r.session
                /\ r.properties = properties
                /\ r.nextId = nextPropertyId

\* A call without a source_url has been rejected with rows in the table.
C13_Witness ==
    /\ last.op = "upsert_property"
    /\ last.outcome = "ValueError"
    /\ last.failedAt = "validate"
    /\ ~last.session
    /\ ~last.changed
    /\ properties # {}

-----------------------------------------------------------------------------
(* Properties of upsert_images, checked under ImageSpec (C9 under Spec). *)

ImageFields == {"property_metadata_id", "category", "generated_image_url", "state"}

\* The rows of a table that hold the image url.
ImageRowsOf(imgs, url) == {r \in imgs : r.source_image_url = url}

\* The value field f of the row of `url` has once `batch` is applied to
\* `before`: the last non-null value the batch carries for it, else the
\* stored value, else null.
ExpectedField(batch, before, url, f) ==
    LET carriers == {j \in 1..Len(batch) :
                        batch[j].source_image_url = url /\ batch[j][f] # None}
        latest == CHOOSE j \in carriers : \A k \in carriers : k <= j
    IN  IF carriers # {} THEN batch[latest][f]
        ELSE IF ImageRowsOf(before, url) # {}
        THEN (CHOOSE r \in ImageRowsOf(before, url) : TRUE)[f]
        ELSE None

\* Every record of the batch is applied: its url has one row, which holds
\* the expected value of every field.
BatchApplied(batch, before, after) ==
    \A i \in 1..Len(batch) :
        LET url == batch[i].source_image_url
        IN  /\ Cardinality(ImageRowsOf(after, url)) = 1
            /\ \A r \in ImageRowsOf(after, url) :
                  \A f \in ImageFields : r[f] = ExpectedField(batch, before, url, f)

\* A record of the batch is missing its url (null or empty) or its owning
\* property id.
HasInvalidRecord(batch) ==
    \E i \in 1..Len(batch) :
        \/ batch[i].source_image_url \in {None, Some("")}
        \/ batch[i].property_metadata_id = None

\* C3: upsert_images is idempotent: from every reachable database and for
\* every batch, a second application of a batch that was applied leaves the
\* image table as the first left it and reports is_new = false for every
\* record.
C3_UpsertImagesIdempotent ==
    \A batch \in ImageBatches :
        \E r1 \in {upsert_images(properties, images, nextImageId, batch, "none")} :
            r1.outcome = "ok" =>
                \E r2 \in {upsert_images(properties, r1.images, r1.nextId, batch, "none")} :
                    /\ r2.outcome = "ok"
                    /\ r2.images = r1.images
                    /\ Len(r2.is_new) = Len(batch)
                    /\ \A i \in 1..Len(batch) : r2.is_new[i] = FALSE

\* A batch of two records has been applied twice in a row.
C3_Witness ==
    /\ last.op = "upsert_images"
    /\ last.repeat
    /\ last.n = 2
    /\ last.is_new = <<FALSE, FALSE>>
    /\ ~last.changed
    /\ Cardinality(images) = 2

\* C4: a batch with a record that lacks its source_image_url or its property
\* id is rejected whole: the call raises the argument error before it opens a
\* session, and the image table and its sequence are as before.
C4_InvalidBatchRejected ==
    \A batch \in ImageBatches : \A fault \in Faults :
        HasInvalidRecord(batch) =>
            \E r \in {upsert_images(properties, images, nextImageId, batch, fault)} :
                /\ r.outcome = "ValueError"
                /\ ~r.session
                /\ r.images = images
                /\ r.nextId = nextImageId

\* A batch with a valid and an invalid record has been rejected, with rows
\* in the table.
C4_Witness ==
    /\ last.op = "upsert_images"
    /\ last.outcome = "ValueError"
    /\ last.mixed
    /\ ~last.changed
    /\ images # {}

C9_OneRowPerImageUrl ==
    /\ \A r1 \in images : \A r2 \in images :
          r1.source_image_url = r2.source_image_url => r1 = r2
    /\ \A r \in images :
          /\ r.property_metadata_id # None
          /\ Cardinality({p \in properties : Some(p.id) = r.property_metadata_id}) = 1

\* A stored image url has been upserted under another property id.
C9_Witness ==
    /\ last.op = "upsert_images"
    /\ last.outcome = "ok"
    /\ last.moved
    /\ \A i \in 1..Len(last.is_new) : ~last.is_new[i]
    /\ Cardinality(images) = 2

\* C10: for every record of a batch that is applied, a url that was stored
\* keeps its row (the same id), whose property id, category, generated url
\* and state are the last non-null values of the batch, or the stored ones
\* where the batch carries null; a url that was not stored gets a row with
\* the record's values.
C10_ImageMergeKeepsNonNull ==
    \A batch \in ImageBatches :
        \E r \in {upsert_images(properties, images, nextImageId, batch, "none")} :
            r.outcome = "ok" =>
                \A i \in 1..Len(batch) :
                    LET url == batch[i].source_image_url
                        old == ImageRowsOf(images, url)
                        new == ImageRowsOf(r.images, url)
                    IN  /\ new # {}
                        /\ old # {} => {n.id : n \in new} = {o.id : o \in old}
                        /\ old = {} => \A n \in new : \A f \in ImageFields :
                                          n[f] = batch[i][f]
                        /\ \A n \in new : \A f \in ImageFields :
                              n[f] = ExpectedField(batch, images, url, f)

\* The row of i1 holds the category of one upsert and the generated url and
\* state of another, each of which carried null for the other's fields.
C10_Witness ==
    /\ last.op = "upsert_images"
    /\ last.outcome = "ok"
    /\ last.is_new = <<FALSE>>
    /\ last.changed
    /\ \E r \in ImageRowsOf(images, Some("i1")) :
          /\ r.category = Some("Kitchen")
          /\ r.generated_image_url = Some("g1")
          /\ r.state = Some("s1")

\* C11: a successful upsert_images call returns one record and one is_new
\* flag per input record, in the order of the batch: the record at position i
\* is the stored row of the source_image_url of input i, and is_new at
\* position i is true iff no row held that url when the call started.
C11_ResultsAlignedWithBatch ==
    \A batch \in ImageBatches : \A fault \in Faults :
        \E r \in {upsert_images(properties, images, nextImageId, batch, fault)} :
            r.outcome = "ok" =>
                /\ Len(r.ret) = Len(batch)
                /\ Len(r.is_new) = Len(batch)
                /\ \A i \in 1..Len(batch) :
                      /\ r.ret[i].source_image_url = batch[i].source_image_url
                      /\ r.ret[i] \in r.images
                      /\ r.is_new[i] =
                            (ImageRowsOf(images, batch[i].source_image_url) = {})

\* A batch of a stored url and a new url has been applied: the flags are
\* false, true.
C11_Witness ==
    /\ last.op = "upsert_images"
    /\ last.outcome = "ok"
    /\ last.n = 2
    /\ last.is_new = <<FALSE, TRUE>>
    /\ last.batch[1].source_image_url # last.batch[2].source_image_url
    /\ Cardinality(images) = 2

\* C14: upsert_images with an empty batch is a no-op: whatever the database
\* would do, it returns an empty result without an error, opens no session
\* and leaves the image table and its sequence as they were.
C14_EmptyBatchIsNoOp ==
    \A fault \in Faults :
        \E r \in {upsert_images(properties, images, nextImageId, <<>>, fault)} :
            /\ r.outcome = "ok"
            /\ r.ret = <<>>
            /\ r.is_new = <<>>
            /\ ~r.session
            /\ r.images = images
            /\ r.nextId = nextImageId

\* An empty batch has been upserted with rows in the table.
C14_Witness ==
    /\ last.op = "upsert_images"
    /\ last.outcome = "ok"
    /\ last.n = 0
    /\ ~last.session
    /\ ~last.changed
    /\ images # {}

-----------------------------------------------------------------------------
(* The walker's result, under WalkerSpec. *)

NoRepeats(urls) ==
    \A j, k \in 1..Len(urls) : j # k => urls[j] # urls[k]

RECURSIVE ScrapedUrls(_)
ScrapedUrls(scraped) ==
    IF scraped = <<>> THEN <<>>
    ELSE Head(scraped).urls \o ScrapedUrls(Tail(scraped))

\* C5: the list extract_property_images returns contains no URL twice.
\* The code appends every tab's URLs to the list and never removes a repeat,
\* so this does not hold.
C5_ResultHasNoRepeats ==
    walker.pc = "done" => NoRepeats(walker.image_urls)

\* C5: the run of the claim's example: two tabs showing {A,B} and {B,C},
\* every step succeeding.
C5_Witness ==
    /\ walker.pc = "done"
    /\ walker.gallery.tabs = << <<Card("A"), Card("B")>>, <<Card("B"), Card("C")>> >>
    /\ walker.n = 2
    /\ walker.clicked = {0, 1}
    /\ Len(walker.scraped) = 2
    /\ \A k \in 1..2 : walker.scraped[k].complete
    /\ walker.image_urls = <<"A", "B", "B", "C">>

\* C6: in a run whose only failures are tab lookups and clicks that fail
\* (and image scrapes that stop early), every position of the enumeration is
\* tried, every tab whose click succeeded is scraped, and the result is the
\* scraped lists in order: it holds the URLs of every image the scrape of such
\* a tab read, all the tab's images when the scrape did not stop early.
C6_FailedClickSkipsOnlyItsTab ==
    (walker.pc = "done" /\ walker.enumerated /\ ~walker.waitRaised) =>
        /\ walker.attempted = 0..(walker.n - 1)
        /\ walker.image_urls = ScrapedUrls(walker.scraped)
        /\ \A p \in walker.clicked :
              \E k \in 1..Len(walker.scraped) :
                 /\ walker.scraped[k].pos = p
                 /\ SeqRange(walker.scraped[k].urls) \subseteq SeqRange(walker.image_urls)
                 /\ walker.scraped[k].complete =>
                       SeqRange(UrlsOfCards(walker.gallery.tabs[p + 1]))
                           \subseteq SeqRange(walker.image_urls)

\* C6: three tabs [ok, throwing, ok]: the second click raised, the other two
\* tabs were scraped in full and the result holds the images of both.
C6_Witness ==
    /\ walker.pc = "done"
    /\ walker.enumerated
    /\ ~walker.waitRaised
    /\ walker.n = 3
    /\ walker.attempted = {0, 1, 2}
    /\ walker.clicked = {0, 2}
    /\ Len(walker.scraped) = 2
    /\ \A k \in 1..2 : walker.scraped[k].complete
    /\ walker.gallery.tabs[1] = <<Card("A"), Card("B")>>
    /\ walker.gallery.tabs[3] = <<CardWithoutImg, Card("C"), CardWithEmptySrc>>
    /\ walker.image_urls = <<"A", "B", "C">>

\* The URLs a complete scrape of `cards` reads, in the order of the cards:
\* those of the cards that hold an image element with a non-empty src.
ExpectedUrls(cards) ==
    LET HasUrl(c) == c.img /\ c.src \notin {None, Some("")}
        kept == SelectSeq(cards, HasUrl)
    IN  [k \in 1..Len(kept) |-> kept[k].src[1]]

IsPrefix(p, q) == Len(p) <= Len(q) /\ p = SubSeq(q, 1, Len(p))

\* The URLs of the pages.
Urls == {"A", "B", "C"}

\* C15: when the gallery opens and the page has no filter bar, the result
\* is the image URLs of the view the modal shows.  The code scrapes only
\* inside process_filter_tabs, which it calls only when the bar is found, so
\* this does not hold.
C15_NoBarScrapesDefaultView ==
    (walker.pc = "done" /\ walker.open = "ok" /\ ~walker.gallery.bar) =>
        walker.image_urls = ExpectedUrls(walker.gallery.default)

\* C15: a run on a page without a filter bar, whose modal shows A and B: the
\* gallery opened and closed without a failure and the result is empty.
C15_Witness ==
    /\ walker.pc = "done"
    /\ walker.open = "ok"
    /\ walker.close = "ok"
    /\ ~walker.gallery.bar
    /\ ~walker.has_filter_bar
    /\ walker.gallery.default = <<Card("A"), Card("B")>>
    /\ walker.fallbacks = 0
    /\ walker.image_urls = <<>>

\* C16: when the filter bar is found and no tab is selected (the wait for
\* the tabs times out, the query returns none, or every click_filter_tab
\* fails), the walker scrapes the visible view once and returns that scrape.
\* The code falls back only when an exception reaches the handler of
\* process_filter_tabs, so this does not hold.
C16_ZeroTabsFallBackOnce ==
    (walker.pc = "done" /\ walker.has_filter_bar /\ walker.selected = {}) =>
        /\ walker.fallbacks = 1
        /\ walker.image_urls = walker.fallback_images

\* C16: a run on a page with two tabs in which both clicks failed and no
\* wait raised: no fallback scrape was made and the result is empty.
C16_Witness ==
    /\ walker.pc = "done"
    /\ walker.has_filter_bar
    /\ walker.enumerated
    /\ walker.n = 2
    /\ walker.attempted = {0, 1}
    /\ walker.selected = {}
    /\ ~walker.waitRaised
    /\ walker.gallery.tabs = << <<Card("A"), Card("B")>>, <<Card("B"), Card("C")>> >>
    /\ walker.fallbacks = 0
    /\ walker.image_urls = <<>>

\* What the walker holds when it comes to close the gallery: nothing without
\* a filter bar, else the fallback scrape if the handler ran, else the list
\* the loop accumulated.
Accumulated(w) ==
    IF ~w.has_filter_bar THEN <<>>
    ELSE IF w.escaped THEN w.fallback_images
    ELSE w.all_image_urls

\* C18: a failure of close_gallery (the key press raises, or the wait for
\* the hidden modal times out) does not leave the walker: the run ends with
\* the list it had accumulated; and on every path the result is a list of
\* URLs, possibly empty.
C18_CloseFailureKeepsResult ==
    /\ walker.pc # "raised"
    /\ walker.close \in {"key_raises", "hidden_timeout"} =>
          (walker.pc = "done" /\ walker.image_urls = Accumulated(walker))
    /\ walker.pc = "done" => walker.image_urls \in Seq(Urls)

\* The key press raised after two tabs were scraped: the result holds both.
C18_Witness ==
    /\ walker.pc = "done"
    /\ walker.close = "key_raises"
    /\ Len(walker.scraped) = 2
    /\ walker.image_urls = <<"B", "C", "A", "B">>

\* C19: the result is in discovery order.  When the loop returns, the
\* scraped tabs are in ascending position, the result is their lists one
\* after the other, and each list follows the order of the tab's cards (it is
\* what a scrape of the cards reads up to where it stopped); when the handler
\* ran, the result follows the order of the cards of the visible view.
C19_DiscoveryOrder ==
    walker.pc = "done" =>
        /\ (walker.has_filter_bar /\ ~walker.escaped) =>
              /\ \A j, k \in 1..Len(walker.scraped) :
                    j < k => walker.scraped[j].pos < walker.scraped[k].pos
              /\ walker.image_urls = ScrapedUrls(walker.scraped)
              /\ \A k \in 1..Len(walker.scraped) :
                    LET all == ExpectedUrls(walker.gallery.tabs[walker.scraped[k].pos + 1])
                    IN  /\ IsPrefix(walker.scraped[k].urls, all)
                        /\ walker.scraped[k].complete => walker.scraped[k].urls = all
        /\ walker.escaped =>
              IsPrefix(walker.image_urls, ExpectedUrls(ViewCards(walker)))

\* Three tabs were scraped in full: the result lists the first tab's
\* images, then the second's, then the third's, each in card order.
C19_Witness ==
    /\ walker.pc = "done"
    /\ ~walker.escaped
    /\ walker.n = 3
    /\ walker.selected = {0, 1, 2}
    /\ Len(walker.scraped) = 3
    /\ \A k \in 1..3 : walker.scraped[k].complete
    /\ walker.gallery.tabs = << <<Card("B"), Card("C")>>,
                                <<CardWithoutImg, Card("C"), CardWithEmptySrc>>,
                                <<Card("A"), Card("B")>> >>
    /\ walker.image_urls = <<"B", "C", "C", "A", "B">>

-----------------------------------------------------------------------------
(* extract_property_data, under CrawlSpec. *)

\* C17: when open_photo_gallery fails (the button never becomes visible,
\* the click raises, or the dialog never becomes visible), the walker raises
\* nothing and returns an empty list at once: no filter bar is looked for, no
\* tab is tried, close_gallery is not called; and the metadata extraction of
\* the same call of extract_property_data has completed.
C17_OpenFailureReturnsEmpty ==
    walker.open \in {"button_timeout", "click_raises", "dialog_timeout"} =>
        /\ walker.pc = "done"
        /\ walker.image_urls = <<>>
        /\ ~walker.has_filter_bar
        /\ walker.attempted = {}
        /\ walker.fallbacks = 0
        /\ walker.close = "none"
        /\ crawl.pc \in {"images", "returned"}

\* The dialog never became visible on a page whose metadata was extracted:
\* the call has returned and nothing was stored.
C17_Witness ==
    /\ walker.open = "dialog_timeout"
    /\ walker.pc = "done"
    /\ walker.image_urls = <<>>
    /\ crawl.pc = "returned"
    /\ crawl.metadata # None
    /\ crawl.step = "skip"
    /\ Cardinality(properties) = 1

\* C20: a failure of the database during the save step leaves
\* extract_property_data as an exception.  upsert_to_db catches every
\* exception and returns None, so this does not hold.
C20_PersistenceFailurePropagates ==
    (crawl.step = "upsert_property" /\ crawl.error = "Exception") =>
        crawl.pc = "raised"

\* C20: the commit of upsert_property failed for a page with a source_url
\* and images: the call returned None and nothing was stored.
C20_Witness ==
    /\ crawl.pc = "returned"
    /\ crawl.ret = None
    /\ crawl.step = "upsert_property"
    /\ crawl.error = "Exception"
    /\ crawl.failedAt = "commit"
    /\ walker.image_urls = <<"A", "B", "B", "C">>
    /\ last.op = "upsert_property"
    /\ last.failedAt = "commit"
    /\ Cardinality(properties) = 1

-----------------------------------------------------------------------------
(* Repeated crawls of a url, under MetadataSpec. *)

\* C21: in every stored property row, status is PENDING iff pending_date is
\* present.  A crawl that finds no pending date sends status ACTIVE and a
\* null pending_date; the merge stores the status and keeps the stored date,
\* so this does not hold.
C21_StatusFollowsPendingDate ==
    \A p \in properties :
        (p.status = Some("PENDING")) <=> (p.pending_date # None)

\* C21: u1 was crawled with a pending date and then without one: its row
\* holds status ACTIVE and the pending date of the first crawl.
C21_Witness ==
    /\ last.op = "upsert_property"
    /\ last.outcome = "ok"
    /\ last.is_new = <<FALSE>>
    /\ last.changed
    /\ \E p \in RowsOf(properties, Some("u1")) :
          /\ p.status = Some("ACTIVE")
          /\ p.pending_date = Some("d1")

\* Whether the page yields a value for the field.
PageYields(page, f) ==
    IF f = "address" THEN page.address \notin {None, EmptyAddress}
    ELSE page[f] # None

\* C22: a later crawl never removes a known field: when the row of the
\* page's url holds a non-empty address, pending date or price and the page
\* yields no value for that field, the row holds the same value after the
\* upsert of the page's record.  extract_property_address returns {} when it
\* finds nothing, which is not None and replaces the stored address, so this
\* does not hold.
C22_LaterCrawlKeepsKnownFields ==
    \A page \in ExtractedPages :
        \E r \in {upsert_property(properties, nextPropertyId,
                                  extract_property_metadata(page, "ok")[1], "none")} :
            \A o \in RowsOf(properties, page.url) :
                \A n \in RowsOf(r.properties, page.url) :
                    /\ \A f \in {"pending_date", "price"} :
                          (o[f] # None /\ ~PageYields(page, f)) => n[f] = o[f]
                    /\ (o.address \notin {None, EmptyAddress}
                            /\ ~PageYields(page, "address")) => n.address = o.address

\* C22: the row of u1, stored with an address and a price by an earlier
\* crawl, has lost its address to a later crawl and kept its price.
C22_Witness ==
    /\ last.op = "upsert_property"
    /\ last.outcome = "ok"
    /\ last.is_new = <<FALSE>>
    /\ last.emptied
    /\ \E p \in RowsOf(properties, Some("u1")) :
          /\ p.address = EmptyAddress
          /\ p.price = Some(500000)

-----------------------------------------------------------------------------
(* The data flow of extract_property_data, under CrawlSpec. *)

\* C23: when the page yields a source URL and the walker a non-empty list,
\* and the database does not fail, storage afterwards holds the property row
\* of the URL and one image row per walker URL owned by it, and the stored
\* records are returned.  upsert_to_db assigns property_metadata_id on the
\* walker's URL strings, which raises after the property is committed, so no
\* image is stored and None is returned: this does not hold.
C23_EndToEndStored ==
    (/\ crawl.pc = "returned"
     /\ crawl.metadata # None
     /\ walker.image_urls # <<>>
     /\ crawl.error # "Exception") =>
        (~FalsyStr(crawl.metadata[1].source_url) =>
            /\ \E p \in RowsOf(properties, crawl.metadata[1].source_url) :
                  \A u \in SeqRange(walker.image_urls) :
                     Cardinality({i \in images :
                                     /\ i.source_image_url = Some(u)
                                     /\ i.property_metadata_id = Some(p.id)}) = 1
            /\ crawl.ret # None)

\* C23: a page with url u1 and the images A and B was crawled without a
\* database failure: the row of u1 is stored, no image row is, and the call
\* returned None.
C23_Witness ==
    /\ crawl.pc = "returned"
    /\ crawl.step = "assign"
    /\ crawl.error = "AttributeError"
    /\ crawl.ret = None
    /\ walker.image_urls = <<"A", "B">>
    /\ RowsOf(properties, Some("u1")) # {}
    /\ last.op = "upsert_property"
    /\ last.outcome = "ok"
    /\ images = {}

-----------------------------------------------------------------------------
(* The sessions of the upsert calls, under Spec. *)

\* C24: every upsert_property and upsert_images call that opens a session
\* ends with no session open: a call that returns has committed, a call that
\* raises (at the lookup, the commit or the reload) has rolled back, and the
\* session is closed in both cases.
C24_SessionReleased ==
    /\ (last.op \in {"upsert_property", "upsert_images"} /\ last.session) =>
          (~last.open /\ last.tx \in {"committed", "rolled_back"})
    /\ \A rec \in KeyPropertyInputs : \A fault \in Faults :
          \E r \in {upsert_property(properties, nextPropertyId, rec, fault)} :
             r.session =>
                /\ ~r.scope.open
                /\ r.scope.tx = IF r.outcome = "ok" THEN "committed" ELSE "rolled_back"
    /\ \A batch \in FewImageBatches : \A fault \in Faults :
          \E r \in {upsert_images(properties, images, nextImageId, batch, fault)} :
             r.session =>
                /\ ~r.scope.open
                /\ r.scope.tx = IF r.outcome = "ok" THEN "committed" ELSE "rolled_back"

\* An upsert_images call has raised while reloading, after its commit: its
\* session is closed.
C24_Witness ==
    /\ last.op = "upsert_images"
    /\ last.failedAt = "reload"
    /\ last.session
    /\ last.changed
    /\ ~last.open
    /\ last.tx = "rolled_back"

-----------------------------------------------------------------------------
(* delete_property, under Spec. *)

\* C26: every image row refers to a stored property row, in every reachable
\* state; and a delete_property that succeeds removes the row of the id and
\* every image row that refers to it, and no other image row.
C26_DeleteCascadesToImages ==
    /\ \A i \in images :
          \E p \in properties : i.property_metadata_id = Some(p.id)
    /\ \A id \in 1..MaxPropertyId :
          \E r \in {delete_property(properties, images, id, "none")} :
             /\ r.outcome = "ok"
             /\ r.ret = <<TRUE>> =>
                   /\ \A p \in r.properties : p.id # id
                   /\ \A i \in r.images : i.property_metadata_id # Some(id)
                   /\ \A i \in images :
                         i.property_metadata_id # Some(id) => i \in r.images
             /\ r.ret = <<FALSE>> =>
                   (r.properties = properties /\ r.images = images)

\* A property that owned an image has been deleted; the image of the other
\* property is still stored.
C26_Witness ==
    /\ last.op = "delete_property"
    /\ last.outcome = "ok"
    /\ last.changed
    /\ last.cascaded
    /\ Cardinality(properties) = 1
    /\ Cardinality(images) = 1

-----------------------------------------------------------------------------
(* No automatic retry. *)

\* How many times `pos` occurs in the sequence `log`.
Count(log, pos) == Cardinality({k \in 1..Len(log) : log[k] = pos})

\* C27: neither layer retries.  In one walker run photos_button.click() is
\* called at most once, click_filter_tab is called at most once for each
\* position and tab.click() at most once for each position, the fallback is
\* taken at most once, and a position whose click failed is left behind; one
\* call of upsert_property or upsert_images calls session.commit() at most
\* once, and a failed commit ends the call with the exception.
C27_NoAutomaticRetry ==
    /\ walker.openClicks <= 1
    /\ \A pos \in 0..MaxTabs :
          /\ Count(walker.tries, pos) <= 1
          /\ Count(walker.clicks, pos) <= 1
          /\ (pos \in walker.attempted \ walker.selected /\ walker.pc \in {"loop", "scrape"})
                => walker.i > pos
    /\ walker.fallbacks <= 1
    /\ last.commits <= 1
    /\ last.failedAt = "commit" => last.commits = 1 /\ last.outcome = "Exception"
    /\ \A rec \in KeyPropertyInputs : \A fault \in Faults :
          \E r \in {upsert_property(properties, nextPropertyId, rec, fault)} :
             /\ r.commits <= 1
             /\ r.failedAt = "commit" => r.outcome = "Exception" /\ r.ret = <<>>
    /\ \A batch \in FewImageBatches : \A fault \in Faults :
          \E r \in {upsert_images(properties, images, nextImageId, batch, fault)} :
             /\ r.commits <= 1
             /\ r.failedAt = "commit" => r.outcome = "Exception" /\ r.ret = <<>>

\* A run whose first tab click raised and whose second succeeded, each
\* clicked once, followed by a call of upsert_property whose one commit failed.
C27_Witness ==
    /\ crawl.pc = "returned"
    /\ walker.pc = "done"
    /\ walker.openClicks = 1
    /\ walker.clicks = <<0, 1>>
    /\ walker.selected = {1}
    /\ last.op = "upsert_property"
    /\ last.failedAt = "commit"
    /\ last.commits = 1

-----------------------------------------------------------------------------
(* Tab handles. *)

\* C29: tab handles are not kept from one click to the next.  Every call of
\* tab.click() acts on a handle of the most recent query of the tab
\* collection, that query was issued after the previous click, the handle is
\* the one at the position of the loop, and no handle of the enumeration
\* (query 1) is clicked.
C29_HandlesNotCached ==
    /\ Len(walker.handles) = Len(walker.clicks)
    /\ \A k \in 1..Len(walker.handles) :
          /\ walker.handles[k].handle = walker.handles[k].latest
          /\ walker.handles[k].handle > 1
          /\ k > 1 => /\ walker.handles[k].handle > walker.handles[k - 1].latest
                      /\ walker.clicks[k] > walker.clicks[k - 1]
    /\ walker.clicks # <<>> => walker.enumerated

\* A run that clicked two tabs, the second after a position whose query
\* had failed.
C29_Witness ==
    /\ walker.pc = "done"
    /\ Len(walker.handles) = 2
    /\ walker.clicks = <<0, 2>>
    /\ walker.handles[2].handle = 4

-----------------------------------------------------------------------------
(* The order of the walker's states. *)

\* The place of a position of the walker in the order CLOSED, OPENING/OPEN,
\* ENUMERATING_TABS, per tab (SELECTING, WAITING, SCRAPING), the handler's
\* fallback, CLOSING, CLOSED.
StateRank(pc) ==
    CASE pc = "closed" -> 0
      [] pc = "opened" -> 1
      [] pc = "tabs" -> 2
      [] pc \in {"loop", "scrape"} -> 3
      [] pc = "fallback" -> 4
      [] pc = "closing" -> 5
      [] OTHER -> 6

\* The positions scraped so far.
ScrapedPositions(w) == {w.scraped[k].pos : k \in 1..Len(w.scraped)}

\* What C28 asks of one step of the walker.
StateOrderStep ==
    /\ StateRank(walker'.pc) >= StateRank(walker.pc)
    /\ (\/ walker'.clicks # walker.clicks
        \/ walker'.scraped # walker.scraped
        \/ walker'.fallbacks # walker.fallbacks)
          => walker.opened /\ walker.open = "ok"
    /\ walker'.clicks # walker.clicks
          => /\ walker.pc = "loop"
             /\ walker'.clicks = Append(walker.clicks, walker.i)
             /\ walker.selected \subseteq ScrapedPositions(walker)
             /\ \A pos \in ScrapedPositions(walker) : pos < walker.i
    /\ walker'.scraped # walker.scraped
          => /\ walker.pc = "scrape"
             /\ Len(walker'.scraped) = Len(walker.scraped) + 1
             /\ walker'.scraped[Len(walker'.scraped)].pos = walker.i
             /\ walker.clicks # <<>>
             /\ walker.clicks[Len(walker.clicks)] = walker.i
             /\ walker.i \in walker.selected
    /\ walker'.close # walker.close
          => /\ walker.pc = "closing"
             /\ walker.close = "none"
             /\ walker'.pc = "done"
             /\ walker'.clicks = walker.clicks
             /\ walker'.scraped = walker.scraped
             /\ (walker.has_filter_bar /\ ~walker.escaped)
                   => /\ walker.i >= walker.n
                      /\ walker.attempted = 0..(walker.n - 1)
                      /\ walker.selected = ScrapedPositions(walker)

\* C28: the walker's steps follow the order of its states.  No step goes back
\* to an earlier state; no tab is clicked or scraped, and no fallback scrape
\* is made, unless open_photo_gallery saw the dialog; tab i is scraped right
\* after its own click and before any later click; Escape is pressed once,
\* after process_filter_tabs has returned (its loop over, or its handler
\* run), and nothing is clicked or scraped afterwards.
C28_StateOrder == [][StateOrderStep]_vars

\* A run that clicked and scraped two tabs in turn and then closed.
C28_Witness ==
    /\ walker.pc = "done"
    /\ walker.close = "ok"
    /\ walker.clicks = <<0, 1>>
    /\ ScrapedPositions(walker) = {0, 1}
    /\ ~walker.escaped

-----------------------------------------------------------------------------
(* Termination of the walker. *)

\* C30: every run of extract_property_images ends, for every number of tabs
\* and every pattern of timeouts and failed clicks, in the state where it has
\* returned image_urls.
C30_WalkerTerminates == <>(walker.pc = "done")

\* A run that has returned after a failed click was skipped and a settle
\* wait that raised was turned into the fallback scrape.
C30_Witness ==
    /\ walker.pc = "done"
    /\ walker.attempted \ walker.clicked # {}
    /\ walker.waitRaised
    /\ walker.fallbacks = 1
    /\ walker.close = "hidden_timeout"

-----------------------------------------------------------------------------
(* Concurrent upserts. *)

\* C25: two calls of upsert_property for the same source_url that run at the
\* same time both complete, and the row stored after both commits is the row
\* produced by the call that committed last.
C25_LastCommitWins ==
    (/\ \A c \in Callers : callers[c].pc = "done"
     /\ \E c \in Callers : callers[c].raced
     /\ callers[1].rec[1].source_url = callers[2].rec[1].source_url)
       => /\ \A c \in Callers : callers[c].outcome = "ok"
          /\ \A c \in Callers :
                callers[c].at = Cardinality(Callers)
                   => callers[c].produced[1] \in properties

\* Two calls for u1 on the empty table, the second begun before the first
\* committed: both lookups found nothing, the first INSERT is stored and the
\* second call has raised on the unique source_url.
C25_Witness ==
    /\ \A c \in Callers : callers[c].pc = "done" /\ callers[c].found = None
    /\ \E c \in Callers : callers[c].raced
    /\ callers[1].rec[1].source_url = callers[2].rec[1].source_url
    /\ \E c \in Callers : callers[c].outcome = "Exception"
    /\ Cardinality(properties) = 1

-----------------------------------------------------------------------------
(* A crawl without images. *)

\* C31: upsert_to_db writes nothing when the list of images is empty.  A
\* call of extract_property_data whose walker returned the empty list has
\* returned None without a call of upsert_property: the table and the
\* sequence are those of the start, whatever metadata was extracted; and in
\* every state upsert_to_db of an empty list leaves the table as it is.
C31_EmptyImagesWriteNothing ==
    /\ (crawl.pc = "returned" /\ walker.image_urls = <<>>)
          => /\ crawl.step = "skip"
             /\ crawl.ret = None
             /\ last = NoCall
             /\ nextPropertyId = 2
             /\ \A r \in properties : r.source_url = Some("u2")
    /\ \A page \in CrawlPages : \A fault \in Faults :
          \E d \in {upsert_to_db(properties, nextPropertyId,
                                 extract_property_metadata(page, "ok"), <<>>, fault)} :
             /\ ~d.called
             /\ d.properties = properties
             /\ d.nextId = nextPropertyId
             /\ d.ret = None

\* A crawl of u1, not yet stored, whose gallery did not open: the metadata
\* was extracted, the call has returned and no row of u1 exists.
C31_Witness ==
    /\ crawl.pc = "returned"
    /\ walker.open = "dialog_timeout"
    /\ walker.image_urls = <<>>
    /\ crawl.metadata # None
    /\ crawl.metadata[1].source_url = Some("u1")
    /\ ~\E r \in properties : r.source_url = Some("u1")

-----------------------------------------------------------------------------
(* An exception inside the tab loop. *)

\* C32: when an exception leaves the loop of process_filter_tabs after some
\* tab was scraped, the list returned is the result of one fallback scrape of
\* the view the page shows, and nothing else: the urls accumulated from the
\* earlier tabs are not part of it.
C32_LoopExceptionReturnsFallbackOnly ==
    (/\ walker.pc \in {"closing", "done"}
     /\ walker.escaped
     /\ walker.scraped # <<>>)
       => /\ walker.fallbacks = 1
          /\ walker.image_urls = walker.fallback_images
          /\ \E stop \in Stops(ViewCards(walker)) :
                walker.image_urls = fetch_images(ViewCards(walker), stop)

\* A run that scraped A and B from the first tab, whose settle wait raised on
\* the second, and that returned what the second tab's view showed.
C32_Witness ==
    /\ walker.pc = "done"
    /\ walker.escaped
    /\ walker.waitRaised
    /\ Len(walker.scraped) = 1
    /\ walker.all_image_urls # <<>>
    /\ walker.image_urls # <<>>
    /\ walker.image_urls # walker.all_image_urls
    /\ walker.view = 2

-----------------------------------------------------------------------------
(* The close signal. *)

\* C33: in one run close_gallery presses Escape once when open_photo_gallery
\* returned True and never when it returned False.  A run whose open control
\* was clicked and whose wait for the dialog timed out has returned the empty
\* list without a call of close_gallery.
C33_CloseOnceIffOpened ==
    /\ walker.escapes <= 1
    /\ walker.escapes = 1 <=> walker.close # "none"
    /\ walker.escapes = 1 => walker.opened /\ walker.open = "ok"
    /\ walker.pc = "done"
          => /\ walker.opened => walker.escapes = 1
             /\ ~walker.opened => /\ walker.escapes = 0
                                  /\ walker.image_urls = <<>>
    /\ walker.open \in {"button_timeout", "click_raises", "dialog_timeout"}
          => /\ walker.pc = "done"
             /\ ~walker.opened
             /\ walker.escapes = 0

\* A run that clicked the open control, did not see the dialog within the
\* timeout and returned without pressing Escape.
C33_Witness ==
    /\ walker.pc = "done"
    /\ walker.open = "dialog_timeout"
    /\ walker.openClicks = 1
    /\ walker.escapes = 0
    /\ walker.close = "none"

-----------------------------------------------------------------------------
(* A url twice in one batch. *)

\* C34: a batch that holds twice a source_image_url that is not stored.  The
\* lookup taken before the loop has neither record, so the loop adds both;
\* the commit is attempted once and fails on the unique source_image_url;
\* the call raises after the rollback and the table is as before: no record
\* of the batch is stored.
C34_RepeatedNewUrlFailsWholeBatch ==
    /\ last.dup => /\ last.outcome = "Exception"
                   /\ last.failedAt \in {"lookup", "commit"}
                   /\ last.tx = "rolled_back"
                   /\ ~last.changed
    /\ \A batch \in ImageBatches : \A fault \in Faults \ {"lookup"} :
          RepeatsNewUrl(properties, images, batch)
             => \E r \in {upsert_images(properties, images, nextImageId, batch, fault)} :
                   /\ upsert_images_loop(batch, 1, ExistingImageDict(images, batch),
                                         [new |-> <<>>, is_new |-> <<>>]).new
                         = SelectSeq(batch, LAMBDA rec :
                              ~\E s \in images : s.source_image_url = rec.source_image_url)
                   /\ r.outcome = "Exception"
                   /\ r.failedAt = "commit"
                   /\ r.commits = 1
                   /\ r.images = images
                   /\ r.nextId = nextImageId
                   /\ r.ret = <<>>

\* A call with a batch that held a new url twice, on a table that already
\* holds another image: the call has raised at its commit and the table
\* still holds that image alone.
C34_Witness ==
    /\ last.op = "upsert_images"
    /\ last.dup
    /\ last.n = 2
    /\ last.outcome = "Exception"
    /\ last.failedAt = "commit"
    /\ Cardinality(images) = 1

-----------------------------------------------------------------------------
(* The rows an upsert leaves alone. *)

\* The urls of a batch.
BatchUrls(batch) == {batch[i].source_image_url : i \in 1..Len(batch)}

\* The rows of a table of images whose url is not among `urls`.
OtherImages(imgs, urls) == {r \in imgs : r.source_image_url \notin urls}

\* In every state, whatever the database does: a call of upsert_property
\* leaves the rows of the other urls as they are, and a call of upsert_images
\* leaves the rows of the urls that are not in its batch as they are.
OtherRowsKept ==
    /\ \A rec \in KeyPropertyInputs : \A fault \in Faults :
          \E r \in {upsert_property(properties, nextPropertyId, rec, fault)} :
             {p \in r.properties : p.source_url # rec.source_url}
                = {p \in properties : p.source_url # rec.source_url}
    /\ \A batch \in FewImageBatches : \A fault \in Faults :
          \E r \in {upsert_images(properties, images, nextImageId, batch, fault)} :
             OtherImages(r.images, BatchUrls(batch))
                = OtherImages(images, BatchUrls(batch))

\* A step that is a call of upsert_property leaves the table of images as it
\* is; a step that is a call of upsert_images leaves the table of properties
\* as it is.
OtherTableKept ==
    /\ last'.op = "upsert_property"
          => images' = images /\ nextImageId' = nextImageId
    /\ last'.op = "upsert_images"
          => properties' = properties /\ nextPropertyId' = nextPropertyId

\* C35: an upsert touches only the rows of its own keys.
C35_UpsertTouchesOwnKeysOnly == [](OtherRowsKept) /\ [][OtherTableKept]_vars

\* A call of upsert_images that changed the table while it held an image
\* of a url that is not in the batch, with both properties stored.
C35_Witness ==
    /\ last.op = "upsert_images"
    /\ last.outcome = "ok"
    /\ last.changed
    /\ OtherImages(images, BatchUrls(last.batch)) # {}
    /\ Cardinality(properties) = 2

-----------------------------------------------------------------------------
(* The positions of the tab loop. *)

\* The positions 0 .. k-1 in ascending order.
Ascending(k) == [j \in 1..k |-> j - 1]

\* C36 as stated: a run that enumerated n tabs has attempted the positions
\* 0 .. n-1, each once and in ascending order, when process_filter_tabs has
\* returned.
C36_EveryPositionAttempted ==
    (walker.enumerated /\ walker.pc \in {"closing", "done"})
       => walker.tries = Ascending(walker.n)

\* C36, amended: the positions attempted are 0, 1, 2, ... in ascending order,
\* each once, none left out, and all below the count n of the enumeration of
\* line 150, however many tabs the page has later.  When the loop ends without
\* an exception they are 0 .. n-1; when the settle wait of line 160 raises at
\* position i the loop is left, and they are 0 .. i.  A position at or beyond
\* the count of a later query is left without a click and the loop goes on
\* with the next one.
C36_PositionsFixedByEnumeration ==
    /\ walker.tries = Ascending(Len(walker.tries))
    /\ Len(walker.tries) <= walker.n
    /\ walker.tries # <<>> => walker.enumerated
    /\ (walker.enumerated /\ ~walker.escaped /\ walker.pc \in {"closing", "done"})
          => walker.tries = Ascending(walker.n)
    /\ (walker.enumerated /\ walker.escaped)
          => /\ walker.waitRaised
             /\ walker.tries = Ascending(walker.i + 1)
             /\ walker.i \in walker.selected
    /\ (walker.pc = "loop" /\ walker.i < walker.n)
          => \A count \in 0..walker.i :
             \A o \in {"ok", "text_raises", "click_raises", "wait_raises"} :
                \E w \in {click_filter_tab(walker, o, count)} :
                   /\ w.clicks = walker.clicks
                   /\ w.selected = walker.selected
                   /\ w.pc = "loop"
                   /\ w.i = walker.i + 1

\* A run on a page of three tabs whose enumeration returned two: positions 0
\* and 1 were attempted, one of them without a click, and the run returned.
C36_Witness ==
    /\ walker.pc = "done"
    /\ ~walker.escaped
    /\ Len(walker.gallery.tabs) = 3
    /\ walker.n = 2
    /\ walker.tries = <<0, 1>>
    /\ walker.clicks = <<0>>

-----------------------------------------------------------------------------
(* The two transactions of upsert_to_db. *)

\* Batches of PropertyImage objects as the signature of upsert_to_db names
\* them, whatever property id they carry.
ObjectBatches == FewImageBatches \ {<<>>}

\* C37: in upsert_to_db the property is committed in upsert_property's own
\* transaction before the image step.  A call whose image step failed after
\* upsert_property succeeded has returned None and left the property row
\* committed.  Given PropertyImage objects, every image handed to
\* upsert_images carries the id of the row just saved, that row is stored
\* when upsert_images starts, and a failure of upsert_images changes neither
\* table.
C37_PropertyCommittedBeforeImages ==
    /\ crawl.step = "assign"
          => /\ last.op = "upsert_property"
             /\ last.outcome = "ok"
             /\ last.tx = "committed"
             /\ ~last.open
             /\ RowsOf(properties, crawl.metadata[1].source_url) # {}
             /\ crawl.ret = None
    /\ \A page \in CrawlPages : \A fault \in Faults :
          \E r \in {upsert_property(properties, nextPropertyId,
                                    extract_property_metadata(page, "ok")[1], fault)} :
             r.outcome = "ok"
                => /\ r.scope = session_close("committed")
                   /\ r.ret[1] \in r.properties
                   /\ \A batch \in ObjectBatches : \A image_fault \in Faults :
                      \E handed \in {with_property_id(batch, r.ret[1].id)} :
                      \E q \in {upsert_to_db_images(r.properties, images, nextImageId,
                                                    r.ret[1], batch, image_fault)} :
                         /\ \A i \in 1..Len(handed) :
                               handed[i].property_metadata_id = Some(r.ret[1].id)
                         /\ q.failedAt # "validate"
                         /\ q.failedAt \in {"lookup", "commit"} => q.images = images
                         /\ q.outcome = "ok"
                               => \A i \in 1..Len(batch) :
                                     q.ret[i].property_metadata_id = Some(r.ret[1].id)

\* A crawl of u1 whose upsert_property inserted and committed the row and
\* whose image step then failed: the row is stored and None was returned.
C37_Witness ==
    /\ crawl.pc = "returned"
    /\ crawl.step = "assign"
    /\ crawl.ret = None
    /\ last.is_new = <<TRUE>>
    /\ last.tx = "committed"
    /\ \E p \in properties : p.source_url = Some("u1") /\ p.id = 2
    /\ nextPropertyId = 3

-----------------------------------------------------------------------------
(* Two inserts of one url. *)

\* C38: storage never holds two rows of one source_url.  When two calls of
\* upsert_property for a url that is not stored have both looked it up
\* before either committed, both add a row; one commit succeeds, the other
\* fails on the unique source_url, and that call raises after its rollback:
\* the table holds the row of the call that succeeded and no other row of
\* the url.
C38_OneInsertWins ==
    /\ UniqueSourceUrl(properties)
    /\ (/\ \A c \in Callers : callers[c].pc = "done" /\ callers[c].found = None
        /\ callers[1].rec[1].source_url = callers[2].rec[1].source_url)
          => \E c \in Callers : \E d \in Callers \ {c} :
                /\ callers[c].outcome = "ok"
                /\ callers[c].scope = session_close("committed")
                /\ callers[d].outcome = "Exception"
                /\ callers[d].scope = session_close("rolled_back")
                /\ callers[d].at = 0
                /\ RowsOf(properties, callers[c].rec[1].source_url)
                      = {callers[c].produced[1]}

\* Two calls for u2 with different addresses, both lookups before either
\* commit: the second caller's row is stored and the first caller has raised.
C38_Witness ==
    /\ \A c \in Callers : callers[c].pc = "done" /\ callers[c].found = None
    /\ callers[1].rec[1].source_url = Some("u2")
    /\ callers[2].rec[1].source_url = Some("u2")
    /\ callers[1].rec[1].address # callers[2].rec[1].address
    /\ callers[1].outcome = "Exception"
    /\ callers[2].outcome = "ok"
    /\ \E p \in properties : /\ p.source_url = Some("u2")
                             /\ p.address = callers[2].rec[1].address

-----------------------------------------------------------------------------
(* fetch_images. *)

\* The urls a list of cards can give: the src of the cards that hold an image
\* element with a non-empty src.
GoodUrls(cards) ==
    {cards[j].src[1] : j \in {k \in 1..Len(cards) :
                                 cards[k].img /\ cards[k].src \notin {None, Some("")}}}

\* C39: fetch_images raises nothing.  Whether the wait for the cards times
\* out, the reading of a card fails or nothing fails, it returns the urls of
\* the cards read before (none after a timeout), in the order of the cards;
\* a card without an image element or with an empty src gives nothing; and
\* the loop of process_filter_tabs extends its list by them and goes on with
\* the next position.
C39_FetchImagesNeverRaises ==
    /\ \A k \in 1..Len(walker.scraped) :
          LET cards == walker.gallery.tabs[walker.scraped[k].pos + 1]
              urls == walker.scraped[k].urls
          IN  /\ \E stop \in Stops(cards) :
                    urls = UrlsOfCards(SubSeq(cards, 1, stop - 1))
              /\ SeqRange(urls) \subseteq GoodUrls(cards)
              /\ walker.scraped[k].complete => SeqRange(urls) = GoodUrls(cards)
    /\ walker.pc = "scrape"
          => \A stop \in Stops(ViewCards(walker)) :
             \E w \in {scrape_tab(walker, "ok", stop)} :
             \E tab_images \in {fetch_images(ViewCards(walker), stop)} :
                /\ w.pc = "loop"
                /\ w.i = walker.i + 1
                /\ w.escaped = walker.escaped
                /\ w.fallbacks = walker.fallbacks
                /\ w.all_image_urls = walker.all_image_urls \o tab_images
                /\ stop = 0 => tab_images = <<>>
                /\ IsPrefix(tab_images, UrlsOfCards(ViewCards(walker)))

\* A run whose first scrape stopped part-way with a url collected, whose loop
\* went on to scrape the next tab, and that returned without the handler.
C39_Witness ==
    /\ walker.pc = "done"
    /\ ~walker.escaped
    /\ Len(walker.scraped) = 2
    /\ ~walker.scraped[1].complete
    /\ walker.scraped[1].urls # <<>>
    /\ walker.scraped[2].pos > walker.scraped[1].pos
    /\ walker.image_urls = walker.scraped[1].urls \o walker.scraped[2].urls

====
